---------------------------- MODULE Spec2Model ----------------------------
(***************************************************************************)
(* Tilt-axis motion subsystem of the rotating LIDAR firmware:              *)
(*   src/src/tilt_stepper_motor_control.c  (state machine, step timer,     *)
(*                                          home sensor handler)           *)
(*   src/unnamed/part_000 (TMC260.c)       (stepper driver)                *)
(*                                                                         *)
(* Three interrupt handlers share the globals of the control file:         *)
(*   TIM1_TRG_COM_TIM11_IRQHandler  the state-machine tick                 *)
(*   TIM5_IRQHandler                the step tick                          *)
(*   EXTI1_IRQHandler               the home-sensor edge handler           *)
(* A handler activation is one atomic action; an activation that is        *)
(* preempted by a more urgent handler is one action as well, the nested    *)
(* handler running at the point of preemption (SpecPreempt).  The register *)
(* interface of the driver is modelled call by call and byte by byte       *)
(* (SpecDriver).                                                           *)
(*                                                                         *)
(* Angles (current_pos_rad, a C float) are kept in milliradians, as        *)
(* integers; every float expression of the source is evaluated exactly     *)
(* and then truncated toward zero to a whole milliradian.                  *)
(***************************************************************************)
EXTENDS Integers, Sequences, FiniteSets, TLC

VARIABLES
    ts_state,                       \* tilt_stepper_states ts_state
    ts_state_timer,                 \* uint32_t ts_state_timer
    last_dir,                       \* uint8_t last_dir
    tilt_index,                     \* volatile uint32_t tilt_index
    steps_from_home,                \* volatile int32_t steps_from_home
    current_step_dir,               \* tilt_stepper_dirs current_step_dir
    current_pos_rad,                \* float current_pos_rad (milliradians)
    tilt_stepper_motor_send_angle,  \* volatile uint8_t flag
    tim5_arr,                       \* auto-reload register of TIM5 (step period)
    home_pin,                       \* input level of GPIOC pin 1 (home flag)
    exti_pending,                   \* pending bit of EXTI line 1
    dir_pin,                        \* output level of GPIOA pin 1 (MOTOR_DIR)
    step_pin,                       \* output level of GPIOA pin 2 (MOTOR_STEP)
    TMC260_initialized,             \* uint8_t TMC260_initialized
    init_calls,                     \* number of TMC260_initialize() calls so far
    status_requests,                \* TMC260_status() calls of the latest handler run
    last_event,                     \* the latest event: a handler, or a flag edge
    sweep_dir,                      \* direction of the latest sweep setup since homing
    stepper_profile,                \* the motion profile table of the build
    TMC260_regval,                  \* uint32_t TMC260_<register>_regval, by register
    cs_pin,                         \* output level of GPIOC pin 13 (CS_260)
    spi_tx,                         \* bytes written to SPI1 since CS_260 was last driven low
    spi_bsy,                        \* SPI_FLAG_BSY of SPI1
    drv_pc,                         \* position inside the running driver call
    drv_call,                       \* the running (or latest) driver call
    drv_retval,                     \* what the latest driver call returned
    drv_txns,                       \* the transactions the running call still has to make
    spi_rxne,                       \* SPI_FLAG_RXNE of SPI1
    spi_dr,                         \* the receive buffer of SPI1
    rd_bytes,                       \* rb1, rb2, rb3 as far as read
    stat_struct,                    \* tmc260_status_struct the latest request filled
    chip_rdsel,                     \* RDSEL as the TMC260 holds it
    chip_meas,                      \* what the TMC260 measures
    chip_in,                        \* bytes the TMC260 took since it was selected
    chip_out,                       \* reply bytes the TMC260 has still to shift out
    call_log,                       \* the completed transactions of the running call
    prev_call,                      \* the call before the running (or latest) one
    spi_stalled                     \* SPI1 has stopped shifting

\* the state of the control file and of the pins it drives
ctl_vars == << ts_state, ts_state_timer, last_dir, tilt_index, steps_from_home,
               current_step_dir, current_pos_rad, tilt_stepper_motor_send_angle,
               tim5_arr, home_pin, exti_pending, dir_pin, step_pin,
               TMC260_initialized, init_calls, status_requests, last_event,
               sweep_dir, stepper_profile >>

\* the state of the driver file's register interface
drv_vars == << TMC260_regval, cs_pin, spi_tx, spi_bsy, drv_pc, drv_call,
               drv_retval >>

\* the receive side of SPI1, the TMC260 behind it, the status request
bus_vars == << drv_txns, spi_rxne, spi_dr, rd_bytes, stat_struct, chip_rdsel,
               chip_meas, chip_in, chip_out, call_log, prev_call,
               spi_stalled >>

vars == << ctl_vars, drv_vars, bus_vars >>

-----------------------------------------------------------------------------
(* Enumerations (tilt_stepper_motor_control.h, TMC260.h).                   *)

TILT_STEPPER_INITIALIZE == "INITIALIZE"
TILT_STEPPER_HOME       == "HOME"
TILT_STEPPER_TILT_TABLE == "TILT_TABLE"
TILT_STEPPER_TEST_CW    == "TEST_CW"
TILT_STEPPER_TEST_CCW   == "TEST_CCW"
TILT_STEPPER_TEST_DELAY == "TEST_DELAY"
TILT_STEPPER_ERROR      == "ERROR"

tilt_stepper_states ==
    { TILT_STEPPER_INITIALIZE, TILT_STEPPER_HOME, TILT_STEPPER_TILT_TABLE,
      TILT_STEPPER_TEST_CW, TILT_STEPPER_TEST_CCW, TILT_STEPPER_TEST_DELAY,
      TILT_STEPPER_ERROR }

TILT_STEPPER_DIR_STOPPED == "STOPPED"
TILT_STEPPER_DIR_CW      == "CW"
TILT_STEPPER_DIR_CCW     == "CCW"

tilt_stepper_dirs ==
    { TILT_STEPPER_DIR_STOPPED, TILT_STEPPER_DIR_CW, TILT_STEPPER_DIR_CCW }

TMC260_STATUS_POSITION == "POSITION"

\* sweep_dir while no sweep has been set up since the last homing
NO_SWEEP == "NONE"

\* GPIO levels.  The home flag reads high when uncovered and low when covered
\* (TMC260_init_gpio's pin table; the Home phase's comments).
Bit_RESET == 0
Bit_SET   == 1
FLAG_UNCOVERED == Bit_SET
FLAG_COVERED   == Bit_RESET


-----------------------------------------------------------------------------
(* Mechanical constants and the motion profile.  They live in              *)
(* tilt_stepper_motor_profile.h and tilt_stepper_motor_control.h, which    *)
(* are not among the source files; the values below are small stand-ins    *)
(* (one micro step is about 0.52 rad) and the profile is the five-entry    *)
(* table of the specification's sweep scenario, with a second build whose  *)
(* table holds a zero (sentinel) entry.                                    *)

micro_steps_per_rev    == 4
stepper_gear_ratio_num == 3
stepper_gear_ratio_den == 1
\* TILT_STEPPER_TWO_PI, in milliradians
TILT_STEPPER_TWO_PI    == 6283

Profiles == { << 100, 80, 60, 80, 100 >>, << 100, 80, 0, 80, 100 >> }

\* tilt_elements: the number of entries of stepper_profile
tilt_elements == Len(stepper_profile)

\* stepper_profile[i] with the C (zero-based) index i
ProfileAt(i) == stepper_profile[i + 1]

\* The step periods the handlers compute from SystemCoreClock and the
\* DEFAULT_STEP_FREQ_HZ / HOME_STEP_FREQ_HZ macros are kept symbolic.
PERIOD_DEFAULT == "DEFAULT_STEP_FREQ_HZ"
PERIOD_HOME    == "HOME_STEP_FREQ_HZ"

-----------------------------------------------------------------------------
(* Literals of the control file.                                           *)

\* 3.14f, the provisional position of EXTI1_IRQHandler (milliradians)
PROVISIONAL_POS_RAD == 3140
\* 3.5f and -0.5f, the over-rotation guard's bounds (milliradians)
POS_RAD_UPPER == 3500
POS_RAD_LOWER == -500
\* if(ts_state_timer%25 == 0)
SEND_ANGLE_TICKS == 25
\* if(ts_state_timer > 200) in TEST_DELAY
TEST_DELAY_TICKS == 200
\* if(ts_state_timer > 80000) in TEST_CW / TEST_CCW
TEST_RUN_TICKS == 80000

-----------------------------------------------------------------------------
(* Bounds of the model.                                                    *)

\* state-machine ticks modelled in a phase that has no timed exit
MaxIdleTicks == 3
\* |steps_from_home| up to which step ticks are modelled
MaxSteps == 8
\* step ticks modelled after the end of a sweep (the cursor keeps counting)
MaxOverrun == 2

-----------------------------------------------------------------------------
(* Arithmetic helpers.                                                     *)

\* C conversion of a quotient to an integer: truncation toward zero
TruncDiv(a, b) == IF a >= 0 THEN a \div b ELSE -((-a) \div b)

\* int32_t limits, and steps_from_home++ / steps_from_home-- on the
\* two's-complement machine (the counter wraps around)
INT32_MAX == 2147483647
INT32_MIN == -INT32_MAX - 1
Incr32(x) == IF x = INT32_MAX THEN INT32_MIN ELSE x + 1
Decr32(x) == IF x = INT32_MIN THEN INT32_MAX ELSE x - 1

\* current_pos_rad = (((float)steps_from_home/(float)micro_steps_per_rev)
\*                    *(stepper_gear_ratio_den / stepper_gear_ratio_num))
\*                   * TILT_STEPPER_TWO_PI;
PosOfSteps(steps) ==
    TruncDiv(steps * stepper_gear_ratio_den * TILT_STEPPER_TWO_PI,
             micro_steps_per_rev * stepper_gear_ratio_num)

\* steps_from_home = (int32_t)((current_pos_rad * (float)micro_steps_per_rev
\*                    * stepper_gear_ratio_num)
\*                    / (stepper_gear_ratio_den * TILT_STEPPER_TWO_PI));
StepsOfPos(pos) ==
    TruncDiv(pos * micro_steps_per_rev * stepper_gear_ratio_num,
             stepper_gear_ratio_den * TILT_STEPPER_TWO_PI)

-----------------------------------------------------------------------------
(* Helpers of the control file, as functions of the values they read.      *)

\* mutant of tilt_stepper_motor_state_change: the tick counter is kept
tilt_stepper_motor_state_change_NoReset(timer, new_state, reset_timer) ==
    [ ts_state |-> new_state, ts_state_timer |-> timer ]

\* void tilt_stepper_motor_state_change(new_state, reset_timer): the phase
\* and tick counter it leaves, given the tick counter it finds
tilt_stepper_motor_state_change(timer, new_state, reset_timer) ==
    [ ts_state       |-> new_state,
      ts_state_timer |-> IF reset_timer # 0 THEN 0 ELSE timer ]

\* mutant of StepCount: a CCW step is not counted
StepCount_CCWIgnored(dir, steps) ==
    IF dir = TILT_STEPPER_DIR_CW THEN Incr32(steps) ELSE steps

\* the counting part of tilt_stepper_motor_step(): steps_from_home after
\* one call made with direction dir
StepCount(dir, steps) ==
    LET s1 == IF dir = TILT_STEPPER_DIR_CW THEN Incr32(steps) ELSE steps
    IN  IF dir = TILT_STEPPER_DIR_CCW THEN Decr32(s1) ELSE s1

\* void TMC260_step(void): the step line after one call (DEDGE: every
\* toggle of the line is one step pulse)
TMC260_step(pin) == IF pin = Bit_SET THEN Bit_RESET ELSE Bit_SET

\* void TMC260_dir_CW(void) / TMC260_dir_CCW(void): the direction line
TMC260_dir_CW  == Bit_RESET
TMC260_dir_CCW == Bit_SET

\* EXTI1_IRQHandler's test for a home crossing, from the level it reads and
\* the commanded direction: (SET and CW) or (RESET and not CW)
HomeCrossing(level, dir) ==
    IF level = Bit_SET
    THEN dir = TILT_STEPPER_DIR_CW
    ELSE dir # TILT_STEPPER_DIR_CW

\* mutant of OverRotated: the lower bound is not tested
OverRotated_NoLowerBound(pos) == pos > POS_RAD_UPPER

\* the over-rotation test of the state-machine tick
OverRotated(pos) == pos > POS_RAD_UPPER \/ pos < POS_RAD_LOWER

\* mutant of HomeDirection: the two branches on the flag level swapped
HomeDirection_LevelSwapped(steps, level, pos) ==
    IF steps = 0
    THEN IF level = Bit_SET
         THEN TILT_STEPPER_DIR_CW
         ELSE TILT_STEPPER_DIR_CCW
    ELSE IF pos > 0
         THEN TILT_STEPPER_DIR_CCW
         ELSE TILT_STEPPER_DIR_CW

\* the direction the Home phase commands at ts_state_timer == 1
HomeDirection(steps, level, pos) ==
    IF steps = 0
    THEN IF level = Bit_SET
         THEN TILT_STEPPER_DIR_CCW
         ELSE TILT_STEPPER_DIR_CW
    ELSE IF pos > 0
         THEN TILT_STEPPER_DIR_CCW
         ELSE TILT_STEPPER_DIR_CW

\* the level tilt_stepper_motor_set_CW / _set_CCW put on the direction line
DirLine(dir) ==
    IF dir = TILT_STEPPER_DIR_CW THEN TMC260_dir_CW ELSE TMC260_dir_CCW

-----------------------------------------------------------------------------
(* The home flag: an edge on GPIOC pin 1 (either direction, the line is    *)
(* configured EXTI_Trigger_Rising_Falling) latches the pending bit.        *)

SensorEdge ==
    /\ UNCHANGED << drv_vars, bus_vars >>
    /\ home_pin' = IF home_pin = Bit_SET THEN Bit_RESET ELSE Bit_SET
    /\ exti_pending' = TRUE
    /\ last_event' = "edge"
    /\ UNCHANGED << ts_state, ts_state_timer, last_dir, tilt_index,
                    steps_from_home, current_step_dir, current_pos_rad,
                    tilt_stepper_motor_send_angle, tim5_arr, dir_pin, step_pin,
                    TMC260_initialized, init_calls, status_requests,
                    sweep_dir, stepper_profile >>

-----------------------------------------------------------------------------
(* void EXTI1_IRQHandler(void)                                             *)

\* the position state the handler writes: either (0.0f, 0) or 3.14f and the
\* step count converted from it
HomePosition(level, dir) ==
    IF HomeCrossing(level, dir)
    THEN [ current_pos_rad |-> 0, steps_from_home |-> 0 ]
    ELSE [ current_pos_rad |-> PROVISIONAL_POS_RAD,
           steps_from_home |-> StepsOfPos(PROVISIONAL_POS_RAD) ]

\* mutant of HomingDone: the test of the phase is missing
HomingDone_AnyPhase(steps, state) == steps = 0

\* if(steps_from_home == 0) if(ts_state == TILT_STEPPER_HOME): homing is done
HomingDone(steps, state) == steps = 0 /\ state = TILT_STEPPER_HOME

\* mutant of HomingLastDir: a completed homing leaves last_dir alone
HomingLastDir_Kept(done, dir) == dir

\* last_dir = 1; of a completed homing
HomingLastDir(done, dir) == IF done THEN 1 ELSE dir

EXTI1_IRQHandler ==
    /\ UNCHANGED << drv_vars, bus_vars >>
    /\ exti_pending
    /\ LET p == HomePosition(home_pin, current_step_dir)
           done == HomingDone(p.steps_from_home, ts_state)
           sc == tilt_stepper_motor_state_change(ts_state_timer,
                                                 TILT_STEPPER_TEST_DELAY, 1)
       IN  /\ current_pos_rad' = p.current_pos_rad
           /\ steps_from_home' = p.steps_from_home
           /\ last_dir' = HomingLastDir(done, last_dir)
           /\ ts_state' = IF done THEN sc.ts_state ELSE ts_state
           /\ ts_state_timer' = IF done THEN sc.ts_state_timer ELSE ts_state_timer
           /\ sweep_dir' = IF done THEN NO_SWEEP ELSE sweep_dir
    /\ exti_pending' = FALSE
    /\ status_requests' = << >>
    /\ last_event' = "EXTI1"
    /\ UNCHANGED << tilt_index, current_step_dir,
                    tilt_stepper_motor_send_angle, tim5_arr, home_pin, dir_pin,
                    step_pin, TMC260_initialized, init_calls, stepper_profile >>

-----------------------------------------------------------------------------
(* void TIM5_IRQHandler(void)                                              *)

\* void tilt_stepper_motor_step(void): count the step, recompute the
\* position, pulse the step line
tilt_stepper_motor_step ==
    /\ steps_from_home' = StepCount(current_step_dir, steps_from_home)
    /\ current_pos_rad' = PosOfSteps(steps_from_home')
    /\ step_pin' = TMC260_step(step_pin)

\* mutant of ProfileHasStep: the test for a zero entry is missing
ProfileHasStep_NoSentinel(index) == index < tilt_elements

\* the test of the sweep branch, on the cursor after tilt_index++
ProfileHasStep(index) ==
    IF index < tilt_elements THEN ProfileAt(index) > 0 ELSE FALSE

\* mutant of SteppingPhases: the delay phase steps as well
SteppingPhases_WithDelay ==
    { TILT_STEPPER_TEST_CW, TILT_STEPPER_TEST_CCW, TILT_STEPPER_HOME,
      TILT_STEPPER_TEST_DELAY }

\* the phases in which the step tick steps unconditionally
SteppingPhases ==
    { TILT_STEPPER_TEST_CW, TILT_STEPPER_TEST_CCW, TILT_STEPPER_HOME }

\* the step tick is modelled while the counters stay inside the bounds
StepTickInBounds ==
    IF ts_state \in SteppingPhases
    THEN LET s == StepCount(current_step_dir, steps_from_home)
         IN  s <= MaxSteps /\ s >= -MaxSteps
    ELSE IF ts_state = TILT_STEPPER_TILT_TABLE
    THEN LET s == StepCount(current_step_dir, steps_from_home)
         IN  /\ tilt_index < tilt_elements + MaxOverrun
             /\ (ProfileHasStep(tilt_index + 1) => (s <= MaxSteps /\ s >= -MaxSteps))
    ELSE TRUE

TIM5_IRQHandler ==
    /\ UNCHANGED << drv_vars, bus_vars >>
    /\ StepTickInBounds
    /\ IF ts_state \in SteppingPhases
       THEN /\ tilt_stepper_motor_step
            /\ UNCHANGED << ts_state, ts_state_timer, tilt_index, tim5_arr >>
       ELSE IF ts_state = TILT_STEPPER_TILT_TABLE
       THEN /\ tilt_index' = tilt_index + 1
            /\ IF ProfileHasStep(tilt_index')
               THEN /\ tilt_stepper_motor_step
                    /\ tim5_arr' = ProfileAt(tilt_index')
                    /\ UNCHANGED << ts_state, ts_state_timer >>
               ELSE LET sc == tilt_stepper_motor_state_change(
                                  ts_state_timer, TILT_STEPPER_TILT_TABLE, 1)
                    IN  /\ ts_state' = sc.ts_state
                        /\ ts_state_timer' = sc.ts_state_timer
                        /\ UNCHANGED << steps_from_home, current_pos_rad,
                                        step_pin, tim5_arr >>
       ELSE UNCHANGED << ts_state, ts_state_timer, tilt_index, tim5_arr,
                         steps_from_home, current_pos_rad, step_pin >>
    /\ status_requests' = << >>
    /\ last_event' = "TIM5"
    /\ UNCHANGED << last_dir, current_step_dir, tilt_stepper_motor_send_angle,
                    home_pin, exti_pending, dir_pin, TMC260_initialized,
                    init_calls, sweep_dir, stepper_profile >>

-----------------------------------------------------------------------------
(* void TIM1_TRG_COM_TIM11_IRQHandler(void)                                *)
(*                                                                         *)
(* The handler's effect on the globals it reads and writes is computed on  *)
(* a record of their values, statement by statement.                       *)

\* the globals and pins the handler reads or writes, as they are now
Globals ==
    [ ts_state           |-> ts_state,
      ts_state_timer     |-> ts_state_timer,
      last_dir           |-> last_dir,
      tilt_index         |-> tilt_index,
      steps_from_home    |-> steps_from_home,
      current_step_dir   |-> current_step_dir,
      current_pos_rad    |-> current_pos_rad,
      tilt_stepper_motor_send_angle |-> tilt_stepper_motor_send_angle,
      home_pin           |-> home_pin,
      dir_pin            |-> dir_pin,
      tim5_arr           |-> tim5_arr,
      TMC260_initialized |-> TMC260_initialized,
      init_calls         |-> init_calls,
      status_requests    |-> status_requests,
      sweep_dir          |-> sweep_dir ]

\* the globals g as the switch statement finds them: phase st, tick
\* counter t, no status requested yet by this activation
TickFrame(g, st, t) ==
    [ g EXCEPT !.ts_state = st, !.ts_state_timer = t,
               !.status_requests = << >> ]

\* tilt_stepper_motor_state_change(new_state, reset_timer) on the record
StateChange(f, new_state, reset_timer) ==
    LET sc == tilt_stepper_motor_state_change(f.ts_state_timer, new_state,
                                              reset_timer)
    IN  [ f EXCEPT !.ts_state = sc.ts_state,
                   !.ts_state_timer = sc.ts_state_timer ]

\* void tilt_stepper_motor_set_CW(void)
tilt_stepper_motor_set_CW(f) ==
    [ f EXCEPT !.current_step_dir = TILT_STEPPER_DIR_CW,
               !.dir_pin = TMC260_dir_CW ]

\* void tilt_stepper_motor_set_CCW(void)
tilt_stepper_motor_set_CCW(f) ==
    [ f EXCEPT !.current_step_dir = TILT_STEPPER_DIR_CCW,
               !.dir_pin = TMC260_dir_CCW ]

\* void TMC260_initialize(void)
TMC260_initialize(f) ==
    [ f EXCEPT !.TMC260_initialized = 1,
               !.init_calls = f.init_calls + 1 ]

\* void TMC260_status(status_type, &stat_struct, 1)
TMC260_status(f, status_type) ==
    [ f EXCEPT !.status_requests = Append(f.status_requests, status_type) ]

\* mutant of OverRotationGuard: over-rotation is treated as a fault
OverRotationGuard_ToError(st, t, pos) ==
    IF st # TILT_STEPPER_HOME /\ st # TILT_STEPPER_INITIALIZE /\ OverRotated(pos)
    THEN tilt_stepper_motor_state_change(t, TILT_STEPPER_ERROR, 1)
    ELSE [ ts_state |-> st, ts_state_timer |-> t ]

\* the over-rotation guard in front of the switch
OverRotationGuard(st, t, pos) ==
    IF st # TILT_STEPPER_HOME /\ st # TILT_STEPPER_INITIALIZE /\ OverRotated(pos)
    THEN tilt_stepper_motor_state_change(t, TILT_STEPPER_HOME, 1)
    ELSE [ ts_state |-> st, ts_state_timer |-> t ]

\* mutant of CaseInitialize: the driver is not brought up
CaseInitialize_NoBringUp(f) == StateChange(f, TILT_STEPPER_HOME, 1)

\* case TILT_STEPPER_INITIALIZE:
CaseInitialize(f) ==
    StateChange(TMC260_initialize(f), TILT_STEPPER_HOME, 1)

\* mutant of CaseHome: past the setup tick the phase polls the step count
\* and completes the homing by itself
CaseHome_Polls(f) ==
    IF f.ts_state_timer = 1
    THEN LET g == [ f EXCEPT !.tim5_arr = PERIOD_HOME ]
         IN  IF HomeDirection(f.steps_from_home, f.home_pin,
                              f.current_pos_rad) = TILT_STEPPER_DIR_CCW
             THEN tilt_stepper_motor_set_CCW(g)
             ELSE tilt_stepper_motor_set_CW(g)
    ELSE IF f.steps_from_home = 0
         THEN StateChange(f, TILT_STEPPER_TEST_DELAY, 1)
         ELSE f

\* case TILT_STEPPER_HOME:
CaseHome(f) ==
    IF f.ts_state_timer = 1
    THEN LET g == [ f EXCEPT !.tim5_arr = PERIOD_HOME ]
         IN  IF HomeDirection(f.steps_from_home, f.home_pin,
                              f.current_pos_rad) = TILT_STEPPER_DIR_CCW
             THEN tilt_stepper_motor_set_CCW(g)
             ELSE tilt_stepper_motor_set_CW(g)
    ELSE f

\* mutant of CaseTiltTable: last_dir is not set in the CCW branch
CaseTiltTable_NoFlip(f) ==
    IF f.ts_state_timer = 1
    THEN LET g == IF f.last_dir # 0
                  THEN tilt_stepper_motor_set_CW([ f EXCEPT !.last_dir = 0 ])
                  ELSE tilt_stepper_motor_set_CCW(f)
         IN  [ g EXCEPT !.tilt_index = 0, !.tim5_arr = ProfileAt(0),
                        !.sweep_dir = g.current_step_dir ]
    ELSE f

\* case TILT_STEPPER_TILT_TABLE:
CaseTiltTable(f) ==
    IF f.ts_state_timer = 1
    THEN LET g == IF f.last_dir # 0
                  THEN tilt_stepper_motor_set_CW([ f EXCEPT !.last_dir = 0 ])
                  ELSE tilt_stepper_motor_set_CCW([ f EXCEPT !.last_dir = 1 ])
         IN  [ g EXCEPT !.tilt_index = 0, !.tim5_arr = ProfileAt(0),
                        !.sweep_dir = g.current_step_dir ]
    ELSE f

\* if(ts_state_timer > 80000) of the two test phases
TestRunDone(t) == t > TEST_RUN_TICKS

\* case TILT_STEPPER_TEST_CW:
CaseTestCW(f) ==
    LET g == IF f.ts_state_timer = 1
             THEN tilt_stepper_motor_set_CW([ f EXCEPT !.tim5_arr = PERIOD_DEFAULT ])
             ELSE f
    IN  IF TestRunDone(g.ts_state_timer)
        THEN StateChange(g, TILT_STEPPER_TEST_CCW, 1)
        ELSE g

\* case TILT_STEPPER_TEST_CCW:
CaseTestCCW(f) ==
    LET g == IF f.ts_state_timer = 1
             THEN tilt_stepper_motor_set_CCW([ f EXCEPT !.tim5_arr = PERIOD_DEFAULT ])
             ELSE f
    IN  IF TestRunDone(g.ts_state_timer)
        THEN StateChange(g, TILT_STEPPER_TEST_CW, 1)
        ELSE g

\* mutant of TestDelayDone: >= in place of >
TestDelayDone_OffByOne(t) == t >= TEST_DELAY_TICKS

\* if(ts_state_timer > 200) of the delay phase
TestDelayDone(t) == t > TEST_DELAY_TICKS

\* case TILT_STEPPER_TEST_DELAY:
CaseTestDelay(f) ==
    LET g == IF f.ts_state_timer = 1
             THEN TMC260_status(f, TMC260_STATUS_POSITION)
             ELSE f
    IN  IF TestDelayDone(g.ts_state_timer)
        THEN StateChange(g, TILT_STEPPER_TILT_TABLE, 1)
        ELSE g

\* switch(ts_state)
SwitchState(f) ==
    CASE f.ts_state = TILT_STEPPER_INITIALIZE -> CaseInitialize(f)
      [] f.ts_state = TILT_STEPPER_HOME       -> CaseHome(f)
      [] f.ts_state = TILT_STEPPER_TILT_TABLE -> CaseTiltTable(f)
      [] f.ts_state = TILT_STEPPER_TEST_CW    -> CaseTestCW(f)
      [] f.ts_state = TILT_STEPPER_TEST_CCW   -> CaseTestCCW(f)
      [] f.ts_state = TILT_STEPPER_TEST_DELAY -> CaseTestDelay(f)
      [] OTHER                                -> f

\* mutant of SendAngleAfter: the flag is toggled, not set
SendAngleAfter_Toggle(t, flag) ==
    IF t % SEND_ANGLE_TICKS = 0 THEN 1 - flag ELSE flag

\* if(ts_state_timer%25 == 0) if(tilt_stepper_motor_send_angle == 0) ...
SendAngleAfter(t, flag) ==
    IF t % SEND_ANGLE_TICKS = 0 /\ flag = 0 THEN 1 ELSE flag

\* the state-machine tick is modelled while the tick counter stays inside
\* the bound, and always in a phase that ends by itself within the bound
TickInBounds ==
    IF ts_state = TILT_STEPPER_TEST_DELAY
    THEN TRUE
    ELSE IF ts_state \in { TILT_STEPPER_TEST_CW, TILT_STEPPER_TEST_CCW }
            /\ ts_state_timer >= TEST_RUN_TICKS - MaxIdleTicks
    THEN TRUE
    ELSE ts_state_timer < MaxIdleTicks

\* one activation of the handler, from the globals g it finds to the
\* globals it leaves
Tick(g) ==
    LET t1 == g.ts_state_timer + 1
        gd == OverRotationGuard(g.ts_state, t1, g.current_pos_rad)
        f  == SwitchState(TickFrame(g, gd.ts_state, gd.ts_state_timer))
    IN  [ f EXCEPT !.tilt_stepper_motor_send_angle =
                       SendAngleAfter(t1, g.tilt_stepper_motor_send_angle) ]

\* what an activation of the handler does to the globals and the pins
TickEffects ==
    /\ LET f == Tick(Globals)
       IN  /\ tilt_stepper_motor_send_angle' = f.tilt_stepper_motor_send_angle
           /\ ts_state' = f.ts_state
           /\ ts_state_timer' = f.ts_state_timer
           /\ last_dir' = f.last_dir
           /\ tilt_index' = f.tilt_index
           /\ current_step_dir' = f.current_step_dir
           /\ dir_pin' = f.dir_pin
           /\ tim5_arr' = f.tim5_arr
           /\ TMC260_initialized' = f.TMC260_initialized
           /\ init_calls' = f.init_calls
           /\ status_requests' = f.status_requests
           /\ sweep_dir' = f.sweep_dir
    /\ last_event' = "TIM11"
    /\ UNCHANGED << steps_from_home, current_pos_rad, home_pin, exti_pending,
                    step_pin, stepper_profile >>

TIM1_TRG_COM_TIM11_IRQHandler ==
    /\ UNCHANGED << drv_vars, bus_vars >>
    /\ TickInBounds
    /\ TickEffects

-----------------------------------------------------------------------------
(* The register interface of the TMC260 driver file.                       *)

TMC260_SUCCESS             == "SUCCESS"
TMC260_ERROR_INVALID_INPUT == "INVALID_INPUT"
\* drv_retval while a call is running, or before the first call
NO_RETVAL == "NONE"

\* the five control registers that have a shadow
TMC260_registers == { "DRVCTRL", "CHOPCONF", "SMARTEN", "SGCSCONF", "DRVCONF" }

\* a & b and a | b on unsigned values
RECURSIVE BitAnd(_, _)
BitAnd(a, b) ==
    IF a = 0 \/ b = 0
    THEN 0
    ELSE (IF a % 2 = 1 /\ b % 2 = 1 THEN 1 ELSE 0)
         + 2 * BitAnd(a \div 2, b \div 2)

RECURSIVE BitOr(_, _)
BitOr(a, b) ==
    IF a = 0 THEN b
    ELSE IF b = 0 THEN a
    ELSE (IF a % 2 = 1 \/ b % 2 = 1 THEN 1 ELSE 0)
         + 2 * BitOr(a \div 2, b \div 2)

(* The register layouts.  The _INIT, _SHIFT and _MASK macros live in       *)
(* TMC260.h, which is not among the source files; the values are those of  *)
(* the TMC260 register map.  A field is << shift, width >>, in the order   *)
(* of the parameters of the function that packs it.                        *)

TMC260_DRVCTRL_SDOFF_INIT == 0
TMC260_DRVCTRL_SDON_INIT  == 0
TMC260_CHOPCONF_INIT      == 524288
TMC260_SMARTEN_INIT       == 655360
TMC260_SGCSCONF_INIT      == 786432
TMC260_DRVCONF_INIT       == 917504

\* ph_a_dir, ph_a_cur, ph_b_dir, ph_b_cur
TMC260_DRVCTRL_SDOFF_FIELDS == << <<17, 1>>, <<9, 8>>, <<8, 1>>, <<0, 8>> >>
\* intpol, dedge, mres
TMC260_DRVCTRL_SDON_FIELDS == << <<9, 1>>, <<8, 1>>, <<0, 4>> >>
\* tbl, chm, rndtf, hdec, hend, hstrt, toff
TMC260_CHOPCONF_FIELDS ==
    << <<15, 2>>, <<14, 1>>, <<13, 1>>, <<11, 2>>, <<7, 4>>, <<4, 3>>, <<0, 4>> >>
\* seimin, sedn, semax, seup, semin
TMC260_SMARTEN_FIELDS == << <<15, 1>>, <<13, 2>>, <<8, 4>>, <<5, 2>>, <<0, 4>> >>
\* sfilt, sgt, cs
TMC260_SGCSCONF_FIELDS == << <<16, 1>>, <<8, 7>>, <<0, 5>> >>
\* tst, slph, slpl, diss2g, ts2g, sdoff, vsense, rdsel
TMC260_DRVCONF_FIELDS ==
    << <<16, 1>>, <<14, 2>>, <<12, 2>>, <<10, 1>>, <<8, 2>>, <<7, 1>>, <<6, 1>>,
       <<4, 2>> >>

\* the register-writing functions TMC260_send_<op>, with the register each
\* one writes, its init pattern and its fields
TMC260_send_ops ==
    [ drvctrl_sdoff |-> [ reg |-> "DRVCTRL", init |-> TMC260_DRVCTRL_SDOFF_INIT,
                          fields |-> TMC260_DRVCTRL_SDOFF_FIELDS ],
      drvctrl_sdon  |-> [ reg |-> "DRVCTRL", init |-> TMC260_DRVCTRL_SDON_INIT,
                          fields |-> TMC260_DRVCTRL_SDON_FIELDS ],
      chopconf      |-> [ reg |-> "CHOPCONF", init |-> TMC260_CHOPCONF_INIT,
                          fields |-> TMC260_CHOPCONF_FIELDS ],
      smarten       |-> [ reg |-> "SMARTEN", init |-> TMC260_SMARTEN_INIT,
                          fields |-> TMC260_SMARTEN_FIELDS ],
      sgcsconf      |-> [ reg |-> "SGCSCONF", init |-> TMC260_SGCSCONF_INIT,
                          fields |-> TMC260_SGCSCONF_FIELDS ],
      drvconf       |-> [ reg |-> "DRVCONF", init |-> TMC260_DRVCONF_INIT,
                          fields |-> TMC260_DRVCONF_FIELDS ] ]

\* the mask of a field: its width in ones, at its shift
FieldMask(field) == (2 ^ field[2] - 1) * 2 ^ field[1]

\* mutant of FieldBits: the value is masked without being shifted
FieldBits_NoShift(value, field) == BitAnd(value, FieldMask(field))

\* ((uint32_t)value << SHIFT) & MASK
FieldBits(value, field) == BitAnd(value * 2 ^ field[1], FieldMask(field))

\* regval = INIT; regval |= field bits; ... for the fields from the i-th on
RECURSIVE PackFrom(_, _, _, _)
PackFrom(regval, fields, args, i) ==
    IF i > Len(fields)
    THEN regval
    ELSE PackFrom(BitOr(regval, FieldBits(args[i], fields[i])), fields, args,
                  i + 1)

\* the register value TMC260_send_<op>(args) packs
PackRegister(op, args) ==
    PackFrom(TMC260_send_ops[op].init, TMC260_send_ops[op].fields, args, 1)

\* the input test in front of the packing: TMC260_send_drvctrl_sdoff tests
\* ph_a_dir and ph_b_dir, TMC260_send_drvctrl_sdon tests intpol and dedge,
\* the other four functions test nothing
InvalidInput(op, args) ==
    CASE op = "drvctrl_sdoff" -> args[1] > 1 \/ args[3] > 1
      [] op = "drvctrl_sdon"  -> args[1] > 1 \/ args[2] > 1
      [] OTHER                -> FALSE

\* the calls of the register-writing functions that are modelled: for each
\* function the arguments TMC260_init_config passes (or the source keeps in
\* a comment), and arguments with a field value wider than the field
DriverCalls ==
    { [ op |-> "drvctrl_sdoff", args |-> a ] :
        a \in { <<1, 240, 0, 240>>, <<2, 240, 0, 240>>, <<0, 15, 2, 15>> } }
    \cup
    { [ op |-> "drvctrl_sdon", args |-> a ] :
        a \in { <<0, 1, 2>>, <<2, 1, 2>>, <<0, 1, 16>> } }
    \cup
    { [ op |-> "chopconf", args |-> a ] :
        a \in { <<0, 1, 0, 0, 0, 4, 4>>, <<0, 2, 0, 0, 0, 4, 4>> } }
    \cup
    { [ op |-> "smarten", args |-> a ] :
        a \in { <<0, 0, 2, 0, 0>>, <<0, 0, 16, 0, 0>> } }
    \cup
    { [ op |-> "sgcsconf", args |-> a ] :
        a \in { <<1, 63, 5>>, <<1, 63, 32>> } }
    \cup
    { [ op |-> "drvconf", args |-> a ] :
        a \in { <<0, 0, 0, 0, 0, 0, 0, 0>>, <<0, 0, 0, 0, 0, 1, 1, 0>>,
                <<0, 0, 0, 0, 0, 0, 0, 4>> } }

\* mutant of DatagramBytes: the three bytes in the opposite order
DatagramBytes_LSBFirst(datagram) ==
    LET sdatagram == (datagram % 16777216) * 256
    IN  << (sdatagram \div 256) % 256,
           (sdatagram \div 65536) % 256,
           (sdatagram \div 16777216) % 256 >>

\* sdatagram = (datagram<<8); byte1 = (sdatagram>>24)&0xFF;
\* byte2 = (sdatagram>>16)&0xFF; byte3 = (sdatagram>>8)&0xFF;
DatagramBytes(datagram) ==
    LET sdatagram == (datagram % 16777216) * 256
    IN  << (sdatagram \div 16777216) % 256,
           (sdatagram \div 65536) % 256,
           (sdatagram \div 256) % 256 >>

\* mutant of SendEntry: the chip is selected before the input is tested
SendEntry_SelectFirst(op, args) ==
    IF InvalidInput(op, args)
    THEN [ drv_retval |-> TMC260_ERROR_INVALID_INPUT, drv_pc |-> "idle",
           cs_pin |-> Bit_RESET, spi_tx |-> << >> ]
    ELSE [ drv_retval |-> NO_RETVAL, drv_pc |-> "byte1",
           cs_pin |-> Bit_RESET, spi_tx |-> << >> ]

\* TMC260_send_<op>(args) up to the first byte: the input test and its
\* return, or else the packing and, in TMC260_spi_write_datagram,
\* GPIO_ResetBits(GPIOC, GPIO_Pin_13)
SendEntry(op, args) ==
    IF InvalidInput(op, args)
    THEN [ drv_retval |-> TMC260_ERROR_INVALID_INPUT, drv_pc |-> "idle",
           cs_pin |-> cs_pin, spi_tx |-> spi_tx ]
    ELSE [ drv_retval |-> NO_RETVAL, drv_pc |-> "byte1",
           cs_pin |-> Bit_RESET, spi_tx |-> << >> ]

\* a call of one of the register-writing functions
TMC260_send ==
    /\ drv_pc = "idle"
    /\ \E c \in DriverCalls :
          LET e == SendEntry(c.op, c.args)
          IN  /\ drv_call' = [ op |-> c.op, args |-> c.args,
                               regval |-> IF e.drv_pc = "idle"
                                          THEN 0
                                          ELSE PackRegister(c.op, c.args) ]
              /\ drv_retval' = e.drv_retval
              /\ drv_pc' = e.drv_pc
              /\ cs_pin' = e.cs_pin
              /\ spi_tx' = e.spi_tx
    /\ UNCHANGED << TMC260_regval, spi_bsy >>
    /\ UNCHANGED << ctl_vars, bus_vars >>

\* uint8_t TMC260_spi_write_byte(uint8_t byte), for byte1, byte2, byte3 of
\* the running call: the byte goes out with the chip select as it is
TMC260_spi_write_byte ==
    /\ drv_pc \in { "byte1", "byte2", "byte3" }
    /\ LET i == CASE drv_pc = "byte1" -> 1
                  [] drv_pc = "byte2" -> 2
                  [] OTHER            -> 3
       IN  /\ spi_tx' = Append(spi_tx,
                               [ byte |-> DatagramBytes(drv_call.regval)[i],
                                 cs   |-> cs_pin ])
           /\ drv_pc' = CASE i = 1 -> "byte2"
                          [] i = 2 -> "byte3"
                          [] OTHER -> "wait"
    /\ spi_bsy' = TRUE
    /\ UNCHANGED << TMC260_regval, cs_pin, drv_call, drv_retval >>
    /\ UNCHANGED << ctl_vars, bus_vars >>

\* SPI1 has shifted out what it was given: the busy flag falls
SPI1_TransferEnd ==
    /\ spi_bsy
    /\ spi_bsy' = FALSE
    /\ UNCHANGED << TMC260_regval, cs_pin, spi_tx, drv_pc, drv_call,
                    drv_retval >>
    /\ UNCHANGED << ctl_vars, bus_vars >>

\* mutant of BusIdle: the wait gives up
BusIdle_GivesUp == TRUE

\* while(SPI_I2S_GetFlagStatus(SPI1, SPI_FLAG_BSY) == SET);
BusIdle == ~spi_bsy

\* the end of TMC260_spi_write_datagram and of TMC260_send_<op>: past the
\* wait for the bus GPIO_SetBits(GPIOC, GPIO_Pin_13), then the shadow of
\* the register takes the value sent and the call returns TMC260_SUCCESS
TMC260_send_return ==
    /\ drv_pc = "wait"
    /\ BusIdle
    /\ cs_pin' = Bit_SET
    /\ TMC260_regval' =
          [ TMC260_regval EXCEPT ![TMC260_send_ops[drv_call.op].reg] =
                                     drv_call.regval ]
    /\ drv_retval' = TMC260_SUCCESS
    /\ drv_pc' = "idle"
    /\ UNCHANGED << spi_tx, spi_bsy, drv_call >>
    /\ UNCHANGED << ctl_vars, bus_vars >>

\* the values of a field of the given width that are tried: the ends of
\* its range, 1, and the top bit alone
FieldValues(width) == { 0, 1, 2 ^ (width - 1), 2 ^ width - 1 }

\* the argument lists whose values, from the i-th field on, fit the fields
RECURSIVE FittingArgsFrom(_, _)
FittingArgsFrom(fields, i) ==
    IF i > Len(fields)
    THEN { << >> }
    ELSE { << v >> \o rest : v \in FieldValues(fields[i][2]),
                             rest \in FittingArgsFrom(fields, i + 1) }

\* the packing of one of the register-writing functions, taken alone: the
\* register value the first call after reset computes from arguments that
\* fit
PackOnly ==
    /\ drv_pc = "idle"
    /\ drv_call.op = "none"
    /\ \E op \in DOMAIN TMC260_send_ops :
          \E args \in FittingArgsFrom(TMC260_send_ops[op].fields, 1) :
             drv_call' = [ op |-> op, args |-> args,
                           regval |-> PackRegister(op, args) ]
    /\ UNCHANGED << TMC260_regval, cs_pin, spi_tx, spi_bsy, drv_pc,
                    drv_retval >>
    /\ UNCHANGED << ctl_vars, bus_vars >>

-----------------------------------------------------------------------------
(* The status request.  Its two transactions are followed byte by byte,    *)
(* with the receive side of SPI1 and the TMC260 at the other end of the    *)
(* bus.  SPI1 is a full-duplex master (SPI_Direction_2Lines_FullDuplex):   *)
(* every byte sent shifts a byte in.  The received byte goes to the        *)
(* receive buffer and raises RXNE when the buffer is empty; when RXNE is   *)
(* still set the buffer keeps what it holds and the new byte is lost       *)
(* (overrun).  SPI_I2S_ReceiveData reads the buffer and clears RXNE; the   *)
(* flag read that follows it clears the overrun condition.                 *)
(* The TMC260 loads the status its RDSEL selects when it is selected,      *)
(* shifts it out most significant bit first in front of four padding bits, *)
(* and takes the last 20 bits it was sent when it is deselected.           *)

\* tmc260_status_types next to TMC260_STATUS_POSITION
TMC260_STATUS_STALLGUARD == "STALLGUARD"
TMC260_STATUS_CURRENT    == "CURRENT"
\* a status_type outside the enumeration
TMC260_STATUS_UNKNOWN    == "UNKNOWN"

\* the value of a status_type; TMC260.h is not among the source files, the
\* values are the RDSEL selections of the TMC260 register map
StatusTypeValue(status_type) ==
    CASE status_type = TMC260_STATUS_POSITION   -> 0
      [] status_type = TMC260_STATUS_STALLGUARD -> 1
      [] status_type = TMC260_STATUS_CURRENT    -> 2
      [] OTHER                                  -> 3

StatusTypes == { TMC260_STATUS_POSITION, TMC260_STATUS_STALLGUARD,
                 TMC260_STATUS_CURRENT, TMC260_STATUS_UNKNOWN }

\* TMC260_DRVCONF_RDSEL_SHIFT and _MASK as << shift, width >>
TMC260_DRVCONF_RDSEL == << 4, 2 >>

\* TMC260_DRVCONF_regval = 0xEF000;
TMC260_DRVCONF_UNCONFIGURED == 978944

\* TMC260_STATUS_<field>_SHIFT and _MASK as << shift, width >>
TMC260_STATUS_FIELDS ==
    [ STST       |-> << 7, 1 >>,
      OLB        |-> << 6, 1 >>,
      OLA        |-> << 5, 1 >>,
      S2GB       |-> << 4, 1 >>,
      S2GA       |-> << 3, 1 >>,
      OTPW       |-> << 2, 1 >>,
      OT         |-> << 1, 1 >>,
      SG         |-> << 0, 1 >>,
      MSTEP      |-> << 10, 10 >>,
      STALLGUARD |-> << 10, 10 >>,
      CUR_SG     |-> << 15, 5 >>,
      CUR_SE     |-> << 10, 5 >> ]

\* (rd & TMC260_STATUS_<name>_MASK) >> TMC260_STATUS_<name>_SHIFT
StatusField(rd, name) ==
    BitAnd(rd, FieldMask(TMC260_STATUS_FIELDS[name]))
       \div 2 ^ TMC260_STATUS_FIELDS[name][1]

\* TMC260_spi_read_status up to its first transaction: the DRVCONF value
\* with RDSEL replaced by status_type, from the shadow or, when the shadow
\* is 0, from 0xEF000
ReadStatusDrvconf(regval, status_type) ==
    LET start   == IF regval = 0 THEN TMC260_DRVCONF_UNCONFIGURED ELSE regval
        cleared == start - BitAnd(start, FieldMask(TMC260_DRVCONF_RDSEL))
    IN  BitOr(cleared,
              FieldBits(StatusTypeValue(status_type), TMC260_DRVCONF_RDSEL))

\* *read_datagram = ((t1<<24) | (t2<<16) | (t3<<8)) >> 12, on 32 unsigned
\* bits; written as the 24 bits shifted right by 4
ReadDatagram(rb) == (rb[1] * 65536 + rb[2] * 256 + rb[3]) \div 16

\* mutant of StatusPayload: the Current request reports the whole stall
\* metric
StatusPayload_CurrentWide(status_type, rd) ==
    CASE status_type = TMC260_STATUS_POSITION ->
            [ position |-> StatusField(rd, "MSTEP"), stall_guard |-> 0,
              current |-> 0 ]
      [] status_type = TMC260_STATUS_STALLGUARD ->
            [ position |-> 0, stall_guard |-> StatusField(rd, "STALLGUARD"),
              current |-> 0 ]
      [] status_type = TMC260_STATUS_CURRENT ->
            [ position |-> 0, stall_guard |-> StatusField(rd, "STALLGUARD"),
              current |-> StatusField(rd, "CUR_SE") ]
      [] OTHER ->
            [ position |-> 0, stall_guard |-> 0, current |-> 0 ]

\* switch(status_type) of TMC260_spi_read_status
StatusPayload(status_type, rd) ==
    CASE status_type = TMC260_STATUS_POSITION ->
            [ position |-> StatusField(rd, "MSTEP"), stall_guard |-> 0,
              current |-> 0 ]
      [] status_type = TMC260_STATUS_STALLGUARD ->
            [ position |-> 0, stall_guard |-> StatusField(rd, "STALLGUARD"),
              current |-> 0 ]
      [] status_type = TMC260_STATUS_CURRENT ->
            [ position |-> 0, stall_guard |-> StatusField(rd, "CUR_SG"),
              current |-> StatusField(rd, "CUR_SE") ]
      [] OTHER ->
            [ position |-> 0, stall_guard |-> 0, current |-> 0 ]

\* the tmc260_status_struct TMC260_spi_read_status fills from rd
StatusStruct(status_type, rd) ==
    LET payload == StatusPayload(status_type, rd)
    IN  [ status_type |-> status_type,
          position    |-> payload.position,
          stall_guard |-> payload.stall_guard,
          current     |-> payload.current,
          status_byte |-> rd % 256,
          STST        |-> StatusField(rd, "STST"),
          OLB         |-> StatusField(rd, "OLB"),
          OLA         |-> StatusField(rd, "OLA"),
          S2GB        |-> StatusField(rd, "S2GB"),
          S2GA        |-> StatusField(rd, "S2GA"),
          OTPW        |-> StatusField(rd, "OTPW"),
          OT          |-> StatusField(rd, "OT"),
          SG          |-> StatusField(rd, "SG") ]

\* stat_struct before the first request: a global, all zero
NO_STATUS == StatusStruct(TMC260_STATUS_POSITION, 0)

\* what the chip may be measuring: microstep position, stall metric,
\* current scale, the eight flags
ChipMeasurements ==
    { [ mstep |-> 677, sg |-> 346, se |-> 21, flags |-> 165 ],
      [ mstep |-> 1022, sg |-> 1, se |-> 10, flags |-> 90 ] }

\* the 20-bit status the chip answers with under a read selection; the
\* selection 3 is reserved, the chip is taken to answer as under 0
ChipStatus(rdsel, meas) ==
    LET payload == CASE rdsel = 1 -> meas.sg
                     [] rdsel = 2 -> (meas.sg \div 32) * 32 + meas.se
                     [] OTHER     -> meas.mstep
    IN  payload * 1024 + meas.flags

\* the three bytes the chip shifts out for a status
ChipReplyBytes(status) ==
    << (status * 16) \div 65536, ((status * 16) \div 256) % 256,
       (status * 16) % 256 >>

\* the 20 bits the chip takes from the bytes it was sent: the last 20
RECURSIVE ChipDatagram(_)
ChipDatagram(in) ==
    IF in = << >>
    THEN 0
    ELSE (ChipDatagram(SubSeq(in, 1, Len(in) - 1)) % 4096) * 256
         + in[Len(in)]

\* RDSEL after the chip was deselected: a datagram with the DRVCONF
\* address (111) carries a new selection
ChipLatchRdsel(in, rdsel) ==
    IF Len(in) = 3 /\ ChipDatagram(in) \div 131072 = 7
    THEN (ChipDatagram(in) \div 16) % 4
    ELSE rdsel

\* the datagrams of TMC260_send_default_regs
TMC260_default_regs == << 0, 590129, 655360, 853253, 980032 >>

\* the register-writing calls followed on the bus
BusSendCalls ==
    { [ op |-> "drvconf",  args |-> << 0, 0, 0, 0, 0, 0, 0, 0 >> ],
      [ op |-> "chopconf", args |-> << 0, 1, 0, 0, 0, 4, 4 >> ] }

\* a transaction that only writes, one that also reads
\* a transaction is the datagram to send, whether the reply is read, and
\* the register whose shadow takes the datagram once it has been sent
NO_REGISTER == "NONE"

\* TMC260_spi_write_datagram(datagram), alone
WriteTransaction(datagram) ==
    [ datagram |-> datagram, read |-> FALSE, reg |-> NO_REGISTER ]

\* TMC260_spi_read_write_datagram(datagram, &rd)
ReadWriteTransaction(datagram) ==
    [ datagram |-> datagram, read |-> TRUE, reg |-> NO_REGISTER ]

\* TMC260_spi_write_datagram(regval) followed by TMC260_<reg>_regval =
\* regval, in TMC260_send_<op>(args)
SendTransaction(op, args) ==
    [ datagram |-> PackRegister(op, args), read |-> FALSE,
      reg |-> TMC260_send_ops[op].reg ]

\* retval = TMC260_spi_write_datagram(TMC260_DRVCONF_regval);
\* retval = TMC260_spi_read_write_datagram(TMC260_DRVCONF_regval, &rd);
ReadStatusTransactions(regval) ==
    << WriteTransaction(regval), ReadWriteTransaction(regval) >>

\* the entry of a call: the previous call is remembered, nothing has been
\* read or logged yet
CallEntry(call, txns) ==
    /\ drv_pc = "idle"
    /\ prev_call' = drv_call
    /\ drv_call' = call
    /\ drv_txns' = txns
    /\ drv_retval' = NO_RETVAL
    /\ drv_pc' = "select"
    /\ rd_bytes' = << >>
    /\ call_log' = << >>
    /\ UNCHANGED << cs_pin, spi_tx, spi_bsy, spi_rxne, spi_dr, stat_struct,
                    chip_rdsel, chip_meas, chip_in, chip_out, spi_stalled >>
    /\ UNCHANGED ctl_vars

\* TMC260_status(status_type, &stat_struct, 1) down to the first
\* transaction of TMC260_spi_read_status: the shadow of DRVCONF is given
\* the value that is going to be sent
StatusEntry(status_type) ==
    LET regval == ReadStatusDrvconf(TMC260_regval["DRVCONF"], status_type)
    IN  /\ CallEntry([ op |-> "status", args |-> << status_type >>,
                       regval |-> regval ],
                     ReadStatusTransactions(regval))
        /\ TMC260_regval' = [ TMC260_regval EXCEPT !["DRVCONF"] = regval ]

\* a status request made from thread level
TMC260_status_call == \E status_type \in StatusTypes : StatusEntry(status_type)

\* TMC260_send_<op>(args) with arguments that pass the input test, down to
\* its TMC260_spi_write_datagram
TMC260_send_call ==
    /\ \E c \in BusSendCalls :
          CallEntry([ op |-> c.op, args |-> c.args,
                      regval |-> PackRegister(c.op, c.args) ],
                    << SendTransaction(c.op, c.args) >>)
    /\ UNCHANGED TMC260_regval

\* TMC260_send_default_regs() down to its first TMC260_spi_write_datagram
TMC260_send_default_regs ==
    /\ CallEntry([ op |-> "default_regs", args |-> << >>, regval |-> 0 ],
                 [ i \in 1..Len(TMC260_default_regs) |->
                      WriteTransaction(TMC260_default_regs[i]) ])
    /\ UNCHANGED TMC260_regval

\* GPIO_ResetBits(GPIOC, GPIO_Pin_13) in front of a transaction: the chip
\* is selected and loads the status it is going to shift out
ChipSelect ==
    /\ drv_pc = "select"
    /\ cs_pin' = Bit_RESET
    /\ spi_tx' = << >>
    /\ chip_in' = << >>
    /\ chip_out' = ChipReplyBytes(ChipStatus(chip_rdsel, chip_meas))
    /\ drv_pc' = "tx1"
    /\ UNCHANGED << TMC260_regval, spi_bsy, drv_call, drv_retval, drv_txns,
                    spi_rxne, spi_dr, rd_bytes, stat_struct, chip_rdsel,
                    chip_meas, call_log, prev_call, spi_stalled >>
    /\ UNCHANGED ctl_vars

\* while(SPI_I2S_GetFlagStatus(SPI1, SPI_FLAG_TXE) == RESET);
\* the transmitter takes the next byte when it has passed on the last one
TransmitReady == ~spi_bsy

\* the wait for TXE and SPI_I2S_SendData(SPI1, byte<i>), in
\* TMC260_spi_write_byte or in TMC260_spi_write_read_byte
SPI_I2S_SendData ==
    /\ drv_pc \in { "tx1", "tx2", "tx3" }
    /\ TransmitReady
    /\ LET i    == CASE drv_pc = "tx1" -> 1
                     [] drv_pc = "tx2" -> 2
                     [] OTHER          -> 3
           txn  == Head(drv_txns)
       IN  /\ spi_tx' = Append(spi_tx,
                               [ byte |-> DatagramBytes(txn.datagram)[i],
                                 cs   |-> cs_pin ])
           /\ drv_pc' = IF txn.read
                        THEN CASE i = 1 -> "rx1"
                               [] i = 2 -> "rx2"
                               [] OTHER -> "rx3"
                        ELSE CASE i = 1 -> "tx2"
                               [] i = 2 -> "tx3"
                               [] OTHER -> "end"
    /\ spi_bsy' = TRUE
    /\ UNCHANGED << TMC260_regval, cs_pin, drv_call, drv_retval, drv_txns,
                    spi_rxne, spi_dr, rd_bytes, stat_struct, chip_rdsel,
                    chip_meas, chip_in, chip_out, call_log, prev_call,
                    spi_stalled >>
    /\ UNCHANGED ctl_vars

\* for comparison, a receive buffer in which a byte that arrives replaces
\* the unread one
ReceiveBuffer_Overwrite(byte) == [ spi_rxne |-> TRUE, spi_dr |-> byte ]

\* the receive buffer of SPI1 after a byte has arrived
ReceiveBuffer(byte) ==
    IF spi_rxne
    THEN [ spi_rxne |-> TRUE, spi_dr |-> spi_dr ]
    ELSE [ spi_rxne |-> TRUE, spi_dr |-> byte ]

\* SPI1 has clocked the byte out and a byte of the chip's reply in: the
\* busy flag falls
SPI1_Exchange ==
    /\ spi_bsy
    /\ ~spi_stalled
    /\ spi_bsy' = FALSE
    /\ chip_in' = IF spi_tx = << >>
                  THEN chip_in
                  ELSE Append(chip_in, spi_tx[Len(spi_tx)].byte)
    /\ LET byte == IF chip_out = << >> THEN 0 ELSE Head(chip_out)
           rx   == ReceiveBuffer(byte)
       IN  /\ spi_rxne' = rx.spi_rxne
           /\ spi_dr' = rx.spi_dr
    /\ chip_out' = IF chip_out = << >> THEN << >> ELSE Tail(chip_out)
    /\ UNCHANGED << TMC260_regval, cs_pin, spi_tx, drv_pc, drv_call,
                    drv_retval, drv_txns, rd_bytes, stat_struct, chip_rdsel,
                    chip_meas, call_log, prev_call, spi_stalled >>
    /\ UNCHANGED ctl_vars

\* while(SPI_I2S_GetFlagStatus(SPI1, SPI_FLAG_RXNE) == RESET);
\* while(SPI_I2S_GetFlagStatus(SPI1, SPI_FLAG_BSY) == SET);
ReceiveReady == spi_rxne /\ ~spi_bsy

\* the two waits and tmpval = SPI_I2S_ReceiveData(SPI1) of
\* TMC260_spi_write_read_byte
SPI_I2S_ReceiveData ==
    /\ drv_pc \in { "rx1", "rx2", "rx3" }
    /\ ReceiveReady
    /\ rd_bytes' = Append(rd_bytes, spi_dr)
    /\ spi_rxne' = FALSE
    /\ drv_pc' = CASE drv_pc = "rx1" -> "tx2"
                   [] drv_pc = "rx2" -> "tx3"
                   [] OTHER          -> "end"
    /\ UNCHANGED << TMC260_regval, cs_pin, spi_tx, spi_bsy, drv_call,
                    drv_retval, drv_txns, spi_dr, stat_struct, chip_rdsel,
                    chip_meas, chip_in, chip_out, call_log, prev_call,
                    spi_stalled >>
    /\ UNCHANGED ctl_vars

\* the end of a transaction: past the wait for the bus
\* GPIO_SetBits(GPIOC, GPIO_Pin_13), the chip takes the datagram;
\* TMC260_send_<op> stores the shadow of its register; the call goes on
\* with its next transaction or with what follows the last
ChipDeselect ==
    /\ drv_pc = "end"
    /\ BusIdle
    /\ cs_pin' = Bit_SET
    /\ chip_rdsel' = ChipLatchRdsel(chip_in, chip_rdsel)
    /\ call_log' = Append(call_log,
                          [ datagram |-> ChipDatagram(chip_in),
                            read     |-> Head(drv_txns).read,
                            reply    |-> ChipStatus(chip_rdsel, chip_meas) ])
    /\ TMC260_regval' =
          IF Head(drv_txns).reg = NO_REGISTER
          THEN TMC260_regval
          ELSE [ TMC260_regval EXCEPT ![Head(drv_txns).reg] =
                                          Head(drv_txns).datagram ]
    /\ drv_txns' = Tail(drv_txns)
    /\ drv_pc' = IF Len(drv_txns) > 1 THEN "select" ELSE "finish"
    /\ UNCHANGED << spi_tx, spi_bsy, drv_call, drv_retval, spi_rxne, spi_dr,
                    rd_bytes, stat_struct, chip_meas, chip_in, chip_out,
                    prev_call, spi_stalled >>
    /\ UNCHANGED ctl_vars

\* what follows the last transaction: TMC260_spi_read_status fills the
\* status struct; the call returns
CallReturn ==
    /\ drv_pc = "finish"
    /\ stat_struct' = IF drv_call.op = "status"
                      THEN StatusStruct(drv_call.args[1],
                                        ReadDatagram(rd_bytes))
                      ELSE stat_struct
    /\ drv_retval' = TMC260_SUCCESS
    /\ drv_pc' = "idle"
    /\ UNCHANGED << TMC260_regval, cs_pin, spi_tx, spi_bsy, drv_call,
                    drv_txns, spi_rxne, spi_dr, rd_bytes, chip_rdsel,
                    chip_meas, chip_in, chip_out, call_log, prev_call,
                    spi_stalled >>

\* the return of a call made from thread level
TMC260_call_return == CallReturn /\ UNCHANGED ctl_vars

\* TMC260_step() between two calls: the motor moves on and the chip
\* measures something else
MotorStep ==
    /\ drv_pc = "idle"
    /\ drv_call' = [ op |-> "step", args |-> << >>, regval |-> 0 ]
    /\ chip_meas' \in ChipMeasurements \ { chip_meas }
    /\ UNCHANGED << TMC260_regval, cs_pin, spi_tx, spi_bsy, drv_pc,
                    drv_retval, drv_txns, spi_rxne, spi_dr, rd_bytes,
                    stat_struct, chip_rdsel, chip_in, chip_out, call_log,
                    prev_call, spi_stalled >>
    /\ UNCHANGED ctl_vars

\* the five register writes of TMC260_init_config
TMC260_init_config ==
    << SendTransaction("drvconf", << 0, 0, 0, 0, 0, 0, 0, 0 >>),
       SendTransaction("drvctrl_sdon", << 0, 1, 2 >>),
       SendTransaction("chopconf", << 0, 1, 0, 0, 0, 4, 4 >>),
       SendTransaction("smarten", << 0, 0, 2, 0, 0 >>),
       SendTransaction("sgcsconf", << 1, 63, 5 >>) >>

(* The driver calls of the state-machine tick.  TMC260_initialize (phase   *)
(* INITIALIZE) and TMC260_status (phase TEST_DELAY) are called inside      *)
(* TIM1_TRG_COM_TIM11_IRQHandler: the activation reaches the call, the     *)
(* call makes its transactions, and the activation ends after the call has *)
(* returned.  Until then the handler is active: it cannot start again, and *)
(* EXTI1_IRQHandler, of lower priority, cannot start; TIM5_IRQHandler, of  *)
(* higher priority, can.  The globals take the activation's values when it *)
(* ends.                                                                   *)

\* an activation from the present globals makes a driver call
TickMakesCall ==
    \/ Tick(Globals).init_calls > init_calls
    \/ Tick(Globals).status_requests # << >>

\* an activation up to the first transaction of its driver call
TickCallEntry ==
    /\ TickInBounds
    /\ TickMakesCall
    /\ IF Tick(Globals).init_calls > init_calls
       THEN /\ CallEntry([ op |-> "initialize", args |-> << >>,
                           regval |-> 0 ],
                         TMC260_init_config)
            /\ UNCHANGED TMC260_regval
       ELSE StatusEntry(Tick(Globals).status_requests[1])

\* the driver call returns and the activation ends
TickCallReturn ==
    /\ CallReturn
    /\ TickEffects

\* an activation that makes no driver call
TickNoCall ==
    /\ drv_pc = "idle"
    /\ ~TickMakesCall
    /\ TIM1_TRG_COM_TIM11_IRQHandler

\* SPI1 stops shifting (a fault of the link): the byte in flight stays in
\* flight, no flag changes any more
SPI1_Stall ==
    /\ ~spi_stalled
    /\ spi_stalled' = TRUE
    /\ UNCHANGED << drv_txns, spi_rxne, spi_dr, rd_bytes, stat_struct,
                    chip_rdsel, chip_meas, chip_in, chip_out, call_log,
                    prev_call >>
    /\ UNCHANGED << ctl_vars, drv_vars >>

\* SPI1 after SPI_Init, the chip after power-up, no call made yet
BusReset ==
    /\ drv_txns = << >>
    /\ spi_rxne = FALSE
    /\ spi_dr = 0
    /\ rd_bytes = << >>
    /\ stat_struct = NO_STATUS
    /\ chip_rdsel = 0
    /\ chip_meas = [ mstep |-> 677, sg |-> 346, se |-> 21, flags |-> 165 ]
    /\ chip_in = << >>
    /\ chip_out = << >>
    /\ call_log = << >>
    /\ prev_call = [ op |-> "none", args |-> << >>, regval |-> 0 ]
    /\ spi_stalled = FALSE

\* the driver file's globals as initialised, CS_260 as TMC260_init_gpio
\* leaves it (an output whose data register was never written)
DriverReset ==
    /\ TMC260_regval = [ r \in TMC260_registers |-> 0 ]
    /\ cs_pin = Bit_RESET
    /\ spi_tx = << >>
    /\ spi_bsy = FALSE
    /\ drv_pc = "idle"
    /\ drv_call = [ op |-> "none", args |-> << >>, regval |-> 0 ]
    /\ drv_retval = NO_RETVAL
    /\ BusReset

-----------------------------------------------------------------------------
(* Preemption.  TIM5 has preemption priority 0, TIM11 has 1 and EXTI1 has  *)
(* 0x0F: a handler is suspended wherever a more urgent one becomes         *)
(* pending, that one runs to its end, and the suspended handler goes on.   *)
(* Such a nested activation is one action: the suspended handler's first   *)
(* part, the whole preempting handler on what that part has written, the   *)
(* rest of the suspended handler.                                          *)

\* EXTI1_IRQHandler completing a homing, preempted by the state-machine
\* tick inside tilt_stepper_motor_state_change, between ts_state_timer = 0
\* and ts_state = new_state
EXTI1_PreemptedInStateChange ==
    /\ UNCHANGED << drv_vars, bus_vars >>
    /\ exti_pending
    /\ LET p  == HomePosition(home_pin, current_step_dir)
           g1 == [ Globals EXCEPT !.current_pos_rad = p.current_pos_rad,
                                  !.steps_from_home = p.steps_from_home,
                                  !.last_dir = 1,
                                  !.sweep_dir = NO_SWEEP,
                                  !.ts_state_timer = 0 ]
           g2 == Tick(g1)
           g3 == [ g2 EXCEPT !.ts_state = TILT_STEPPER_TEST_DELAY ]
       IN  /\ HomingDone(p.steps_from_home, ts_state)
           /\ ts_state' = g3.ts_state
           /\ ts_state_timer' = g3.ts_state_timer
           /\ last_dir' = g3.last_dir
           /\ tilt_index' = g3.tilt_index
           /\ steps_from_home' = g3.steps_from_home
           /\ current_step_dir' = g3.current_step_dir
           /\ current_pos_rad' = g3.current_pos_rad
           /\ tilt_stepper_motor_send_angle' = g3.tilt_stepper_motor_send_angle
           /\ dir_pin' = g3.dir_pin
           /\ tim5_arr' = g3.tim5_arr
           /\ TMC260_initialized' = g3.TMC260_initialized
           /\ init_calls' = g3.init_calls
           /\ status_requests' = g3.status_requests
           /\ sweep_dir' = g3.sweep_dir
    /\ exti_pending' = FALSE
    /\ last_event' = "EXTI1"
    /\ UNCHANGED << home_pin, step_pin, stepper_profile >>

\* the globals and pins the sensor handler and the step tick read or write
StepGlobals == Globals @@ [ step_pin |-> step_pin ]

\* the handlers have left the globals and pins g
SetStepGlobals(g) ==
    /\ ts_state' = g.ts_state
    /\ ts_state_timer' = g.ts_state_timer
    /\ last_dir' = g.last_dir
    /\ tilt_index' = g.tilt_index
    /\ steps_from_home' = g.steps_from_home
    /\ current_step_dir' = g.current_step_dir
    /\ current_pos_rad' = g.current_pos_rad
    /\ tilt_stepper_motor_send_angle' = g.tilt_stepper_motor_send_angle
    /\ dir_pin' = g.dir_pin
    /\ tim5_arr' = g.tim5_arr
    /\ TMC260_initialized' = g.TMC260_initialized
    /\ init_calls' = g.init_calls
    /\ sweep_dir' = g.sweep_dir
    /\ step_pin' = g.step_pin
    /\ status_requests' = << >>
    /\ UNCHANGED << home_pin, stepper_profile >>

\* tilt_stepper_motor_step() on the globals g
StepOn(g) ==
    LET s == StepCount(g.current_step_dir, g.steps_from_home)
    IN  [ g EXCEPT !.steps_from_home = s,
                   !.current_pos_rad = PosOfSteps(s),
                   !.step_pin = TMC260_step(g.step_pin) ]

\* one activation of TIM5_IRQHandler, from the globals g it finds to the
\* globals it leaves
StepTick(g) ==
    IF g.ts_state \in SteppingPhases
    THEN StepOn(g)
    ELSE IF g.ts_state = TILT_STEPPER_TILT_TABLE
    THEN IF ProfileHasStep(g.tilt_index + 1)
         THEN StepOn([ g EXCEPT !.tilt_index = g.tilt_index + 1,
                                !.tim5_arr = ProfileAt(g.tilt_index + 1) ])
         ELSE [ g EXCEPT !.tilt_index = g.tilt_index + 1,
                         !.ts_state_timer = 0,
                         !.ts_state = TILT_STEPPER_TILT_TABLE ]
    ELSE g

\* the step tick on g is modelled: the counters stay inside the bounds
StepTickInBoundsOn(g) ==
    /\ StepTick(g).steps_from_home <= MaxSteps
    /\ StepTick(g).steps_from_home >= -MaxSteps
    /\ StepTick(g).tilt_index <= tilt_elements + MaxOverrun

\* EXTI1_IRQHandler in three parts, in the branch chosen by what it read
\* on entry: current_pos_rad = 0.0f or 3.14f;
SensorWritesPosition(g, crossing) ==
    [ g EXCEPT !.current_pos_rad =
                  IF crossing THEN 0 ELSE PROVISIONAL_POS_RAD ]

\* steps_from_home = 0 or the step count converted from current_pos_rad.
\* current_pos_rad is not volatile: the conversion reads it back from memory
\* (reread) or uses the 3.14f the handler has just stored, as the build chose
SensorWritesSteps(g, crossing, reread) ==
    [ g EXCEPT !.steps_from_home =
                  IF crossing THEN 0
                  ELSE IF reread THEN StepsOfPos(g.current_pos_rad)
                  ELSE StepsOfPos(PROVISIONAL_POS_RAD) ]

\* if(steps_from_home == 0) if(ts_state == TILT_STEPPER_HOME) { ... }
SensorTestsHome(g) ==
    IF HomingDone(g.steps_from_home, g.ts_state)
    THEN [ g EXCEPT !.last_dir = 1,
                    !.sweep_dir = NO_SWEEP,
                    !.ts_state_timer = 0,
                    !.ts_state = TILT_STEPPER_TEST_DELAY ]
    ELSE g

\* one activation of EXTI1_IRQHandler, not preempted
SensorHandler(g) ==
    LET crossing == HomeCrossing(g.home_pin, g.current_step_dir)
    IN  SensorTestsHome(
           SensorWritesSteps(SensorWritesPosition(g, crossing), crossing,
                             TRUE))

\* EXTI1_IRQHandler preempted by the step tick between its write of
\* current_pos_rad and its write of steps_from_home
SensorPreemptedAfterPosition(g, reread) ==
    LET crossing == HomeCrossing(g.home_pin, g.current_step_dir)
    IN  SensorTestsHome(
           SensorWritesSteps(StepTick(SensorWritesPosition(g, crossing)),
                             crossing, reread))

\* EXTI1_IRQHandler preempted by the step tick between its write of
\* steps_from_home and its test of steps_from_home
SensorPreemptedBeforeTest(g) ==
    LET crossing == HomeCrossing(g.home_pin, g.current_step_dir)
    IN  SensorTestsHome(
           StepTick(SensorWritesSteps(SensorWritesPosition(g, crossing),
                                      crossing, TRUE)))

EXTI1_PreemptedAfterPosition ==
    /\ UNCHANGED << drv_vars, bus_vars >>
    /\ exti_pending
    /\ StepTickInBoundsOn(StepGlobals)
    /\ \E reread \in BOOLEAN :
          SetStepGlobals(SensorPreemptedAfterPosition(StepGlobals, reread))
    /\ exti_pending' = FALSE
    /\ last_event' = "EXTI1"

EXTI1_PreemptedBeforeTest ==
    /\ UNCHANGED << drv_vars, bus_vars >>
    /\ exti_pending
    /\ StepTickInBoundsOn(StepGlobals)
    /\ SetStepGlobals(SensorPreemptedBeforeTest(StepGlobals))
    /\ exti_pending' = FALSE
    /\ last_event' = "EXTI1"

\* the state-machine tick on g is one that commands a direction: it leaves
\* HOME, TILT_TABLE, TEST_CW or TEST_CCW with the tick counter at 1
TickSetsDirection(g) ==
    /\ Tick(g).ts_state_timer = 1
    /\ Tick(g).ts_state \in { TILT_STEPPER_HOME, TILT_STEPPER_TILT_TABLE,
                              TILT_STEPPER_TEST_CW, TILT_STEPPER_TEST_CCW }

\* that tick up to the first statement of tilt_stepper_motor_set_CW / _CCW:
\* current_step_dir is written, the direction line is not, and in
\* TILT_TABLE the cursor and the period, written after the call, are not
TickBeforeDirLine(g) ==
    LET f == Tick(g)
    IN  IF f.ts_state = TILT_STEPPER_TILT_TABLE
        THEN [ f EXCEPT !.dir_pin = g.dir_pin,
                        !.tilt_index = g.tilt_index,
                        !.tim5_arr = g.tim5_arr ]
        ELSE [ f EXCEPT !.dir_pin = g.dir_pin ]

\* the rest of that tick on the globals g2 the step tick has left:
\* TMC260_dir_CW() / TMC260_dir_CCW(), and in TILT_TABLE tilt_index = 0 and
\* TIM_SetAutoreload(TIM5, stepper_profile[tilt_index])
TickAfterDirLine(g2) ==
    LET g3 == [ g2 EXCEPT !.dir_pin = DirLine(g2.current_step_dir) ]
    IN  IF g2.ts_state = TILT_STEPPER_TILT_TABLE
        THEN [ g3 EXCEPT !.tilt_index = 0, !.tim5_arr = ProfileAt(0) ]
        ELSE g3

\* TIM1_TRG_COM_TIM11_IRQHandler preempted by the step tick inside
\* tilt_stepper_motor_set_CW / _CCW, between the write of current_step_dir
\* and the write of the direction line
TIM11_PreemptedInSetDirection ==
    /\ UNCHANGED << drv_vars, bus_vars >>
    /\ TickInBounds
    /\ TickSetsDirection(Globals)
    /\ LET g1 == TickBeforeDirLine(Globals) @@ [ step_pin |-> step_pin ]
       IN  /\ StepTickInBoundsOn(g1)
           /\ SetStepGlobals(TickAfterDirLine(StepTick(g1)))
    /\ last_event' = "TIM11"
    /\ UNCHANGED exti_pending

\* the step tick on g is the one that ends a sweep: in TILT_TABLE, with no
\* step left at the next cursor position
StepTickEndsSweep(g) ==
    /\ g.ts_state = TILT_STEPPER_TILT_TABLE
    /\ ~ProfileHasStep(g.tilt_index + 1)

\* The state-machine tick preempted by the step tick inside
\* 'ts_state_timer++' (a load, an add and a store on this machine), after
\* the load: the store puts back the value loaded plus one, over what the
\* step tick has written, and the tick goes on from there.
TickPreemptedInIncrement(g) ==
    Tick([ StepTick(g) EXCEPT !.ts_state_timer = g.ts_state_timer ])

\* The state-machine tick preempted by the step tick after the store of
\* 'ts_state_timer++', the telemetry test and the guard, before the switch
\* statement reads ts_state and ts_state_timer from memory.
TickPreemptedBeforeSwitch(g) ==
    LET t1 == g.ts_state_timer + 1
        gd == OverRotationGuard(g.ts_state, t1, g.current_pos_rad)
        g1 == StepTick([ g EXCEPT !.ts_state = gd.ts_state,
                                  !.ts_state_timer = gd.ts_state_timer,
                                  !.tilt_stepper_motor_send_angle =
                                      SendAngleAfter(t1,
                                         g.tilt_stepper_motor_send_angle) ])
    IN  SwitchState(TickFrame(g1, g1.ts_state, g1.ts_state_timer))

\* The same, in a build that keeps the incremented ts_state_timer in a
\* register (the variable is not volatile): the switch statement tests the
\* value from before the step tick, memory keeps what the step tick wrote.
TickPreemptedBeforeSwitchCached(g) ==
    LET t1 == g.ts_state_timer + 1
        gd == OverRotationGuard(g.ts_state, t1, g.current_pos_rad)
        g1 == StepTick([ g EXCEPT !.ts_state = gd.ts_state,
                                  !.ts_state_timer = gd.ts_state_timer,
                                  !.tilt_stepper_motor_send_angle =
                                      SendAngleAfter(t1,
                                         g.tilt_stepper_motor_send_angle) ])
        f  == SwitchState(TickFrame(g1, g1.ts_state, gd.ts_state_timer))
    IN  IF f.ts_state = g1.ts_state /\ f.ts_state_timer = gd.ts_state_timer
        THEN [ f EXCEPT !.ts_state_timer = g1.ts_state_timer ]
        ELSE f

\* TIM1_TRG_COM_TIM11_IRQHandler with the step tick that ends a sweep
\* nested in it, at one of the two points, in either build
TIM11_PreemptedBySweepEnd ==
    /\ UNCHANGED << drv_vars, bus_vars >>
    /\ TickInBounds
    /\ StepTickEndsSweep(StepGlobals)
    /\ StepTickInBoundsOn(StepGlobals)
    /\ \/ SetStepGlobals(TickPreemptedInIncrement(StepGlobals))
       \/ SetStepGlobals(TickPreemptedBeforeSwitch(StepGlobals))
       \/ SetStepGlobals(TickPreemptedBeforeSwitchCached(StepGlobals))
    /\ last_event' = "TIM11"
    /\ UNCHANGED exti_pending

-----------------------------------------------------------------------------
(* The consumer of tilt_stepper_motor_send_angle.  The flag is a volatile  *)
(* global the handlers only ever set; the thread-level code that sends the *)
(* angle report and takes the request down is not part of this file.       *)

SendAngleConsumed ==
    /\ UNCHANGED << drv_vars, bus_vars >>
    /\ tilt_stepper_motor_send_angle = 1
    /\ tilt_stepper_motor_send_angle' = 0
    /\ UNCHANGED << ts_state, ts_state_timer, last_dir, tilt_index,
                    steps_from_home, current_step_dir, current_pos_rad,
                    tim5_arr, home_pin, exti_pending, dir_pin, step_pin,
                    TMC260_initialized, init_calls, status_requests,
                    last_event, sweep_dir, stepper_profile >>

-----------------------------------------------------------------------------
(* Specifications.                                                         *)

\* the globals' initialisers, the pins after reset, TIM5 as
\* tilt_stepper_motor_init_step_timer leaves it; the flag may be covered or
\* not when the firmware starts
Init ==
    /\ ts_state = TILT_STEPPER_INITIALIZE
    /\ ts_state_timer = 0
    /\ last_dir = 0
    /\ tilt_index = 0
    /\ steps_from_home = 0
    /\ current_step_dir = TILT_STEPPER_DIR_STOPPED
    /\ current_pos_rad = 0
    /\ tilt_stepper_motor_send_angle = 0
    /\ tim5_arr = PERIOD_DEFAULT
    /\ home_pin \in { Bit_RESET, Bit_SET }
    /\ exti_pending = FALSE
    /\ dir_pin = Bit_RESET
    /\ step_pin = Bit_RESET
    /\ TMC260_initialized = 0
    /\ init_calls = 0
    /\ status_requests = << >>
    /\ last_event = "reset"
    /\ sweep_dir = NO_SWEEP
    /\ stepper_profile \in Profiles
    /\ DriverReset

Next ==
    \/ SensorEdge
    \/ EXTI1_IRQHandler
    \/ TIM5_IRQHandler
    \/ TIM1_TRG_COM_TIM11_IRQHandler

Spec == Init /\ [][Next]_vars

\* the handlers together with the consumer of the telemetry request
NextWithConsumer ==
    \/ SensorEdge
    \/ EXTI1_IRQHandler
    \/ TIM5_IRQHandler
    \/ TIM1_TRG_COM_TIM11_IRQHandler
    \/ SendAngleConsumed

\* the build whose profile has no zero entry
InitFullProfile == Init /\ stepper_profile = << 100, 80, 60, 80, 100 >>

SpecWithConsumer == InitFullProfile /\ [][NextWithConsumer]_vars

\* the handlers, alone and nested
NextPreempt ==
    \/ SensorEdge
    \/ EXTI1_IRQHandler
    \/ TIM5_IRQHandler
    \/ TIM1_TRG_COM_TIM11_IRQHandler
    \/ EXTI1_PreemptedInStateChange

SpecPreempt == Init /\ [][NextPreempt]_vars

\* the register interface of the driver, called from thread level
NextDriver ==
    \/ TMC260_send
    \/ TMC260_spi_write_byte
    \/ SPI1_TransferEnd
    \/ TMC260_send_return

\* the driver's calls do not read the control file's state: one start
InitDriver == InitFullProfile /\ home_pin = Bit_SET

SpecDriver == InitDriver /\ [][NextDriver]_vars

\* the status request and the register writes, followed on the bus
NextStatus ==
    \/ TMC260_status_call
    \/ TMC260_send_call
    \/ TMC260_send_default_regs
    \/ MotorStep
    \/ ChipSelect
    \/ SPI_I2S_SendData
    \/ SPI1_Exchange
    \/ SPI_I2S_ReceiveData
    \/ ChipDeselect
    \/ TMC260_call_return

SpecStatus == InitDriver /\ [][NextStatus]_vars

\* the packing functions on every list of fitting boundary values
SpecPack == InitDriver /\ [][PackOnly]_vars

\* The handlers taken from any phase: the start phase is the one
\* tilt_stepper_motor_state_change is given at the end of INITIALIZE (the
\* source keeps TILT_STEPPER_TEST_CW there, commented out), or any phase
\* entered by an explicit transition, after some motion: the position state
\* is a consistent pair, the direction line agrees with the direction, and
\* the driver has been brought up unless the phase still is INITIALIZE.
InitStepCounts == { -1, 0, 6, 7 }

InitAnyPhase ==
    /\ ts_state \in tilt_stepper_states
    /\ ts_state_timer \in
          IF ts_state \in { TILT_STEPPER_TEST_CW, TILT_STEPPER_TEST_CCW }
          THEN { 0, TEST_RUN_TICKS - 1 }
          ELSE { 0 }
    /\ last_dir \in { 0, 1 }
    /\ tilt_index = 0
    /\ steps_from_home \in
          IF ts_state = TILT_STEPPER_INITIALIZE THEN { 0 } ELSE InitStepCounts
    /\ current_pos_rad = PosOfSteps(steps_from_home)
    /\ current_step_dir \in
          IF ts_state = TILT_STEPPER_INITIALIZE
          THEN { TILT_STEPPER_DIR_STOPPED }
          ELSE tilt_stepper_dirs
    /\ dir_pin = IF current_step_dir = TILT_STEPPER_DIR_STOPPED
                 THEN Bit_RESET
                 ELSE DirLine(current_step_dir)
    /\ tilt_stepper_motor_send_angle = 0
    /\ tim5_arr = PERIOD_DEFAULT
    /\ home_pin \in { Bit_RESET, Bit_SET }
    /\ exti_pending = FALSE
    /\ step_pin = Bit_RESET
    /\ TMC260_initialized = IF ts_state = TILT_STEPPER_INITIALIZE THEN 0 ELSE 1
    /\ init_calls = TMC260_initialized
    /\ status_requests = << >>
    /\ last_event = "reset"
    /\ sweep_dir = NO_SWEEP
    /\ stepper_profile \in Profiles
    /\ DriverReset

SpecAnyPhase == InitAnyPhase /\ [][Next]_vars

(* The step counter at the ends of its range.  steps_from_home++ at        *)
(* INT32_MAX and steps_from_home-- at INT32_MIN overflow a signed integer, *)
(* which C leaves undefined: the outcomes are the wrapped value (load,     *)
(* add, store on the two's-complement machine) and the unchanged one.      *)
(* Out there the position is far beyond what the model holds in            *)
(* milliradians: it is held at the nearer end of the integer range.        *)

\* steps from an end of the range up to which the counter is followed
MaxLimitDistance == 40

NearLimit(steps) ==
    \/ steps >= INT32_MAX - MaxLimitDistance
    \/ steps <= INT32_MIN + MaxLimitDistance

\* steps_from_home after tilt_stepper_motor_step() with direction dir
StepCountOutcomes(dir, steps) ==
    IF \/ ( dir = TILT_STEPPER_DIR_CW /\ steps = INT32_MAX )
       \/ ( dir = TILT_STEPPER_DIR_CCW /\ steps = INT32_MIN )
    THEN { StepCount(dir, steps), steps }
    ELSE { StepCount(dir, steps) }

\* current_pos_rad for a step count near an end of the range
FarPosOfSteps(steps) == IF steps > 0 THEN INT32_MAX ELSE INT32_MIN

\* TIM5_IRQHandler in phase HOME, the counter near an end of its range
TIM5_IRQHandler_NearLimit ==
    /\ ts_state = TILT_STEPPER_HOME
    /\ NearLimit(steps_from_home)
    /\ steps_from_home' \in StepCountOutcomes(current_step_dir, steps_from_home)
    /\ NearLimit(steps_from_home')
    /\ current_pos_rad' = FarPosOfSteps(steps_from_home')
    /\ step_pin' = TMC260_step(step_pin)
    /\ status_requests' = << >>
    /\ last_event' = "TIM5"
    /\ UNCHANGED << ts_state, ts_state_timer, last_dir, tilt_index,
                    current_step_dir, tilt_stepper_motor_send_angle, tim5_arr,
                    home_pin, exti_pending, dir_pin, TMC260_initialized,
                    init_calls, sweep_dir, stepper_profile >>
    /\ UNCHANGED << drv_vars, bus_vars >>

\* a Home phase that has been stepping one way for a long time, the sensor
\* never triggering
InitNearLimit ==
    /\ ts_state = TILT_STEPPER_HOME
    /\ ts_state_timer = 1
    /\ last_dir = 0
    /\ tilt_index = 0
    /\ current_step_dir \in { TILT_STEPPER_DIR_CW, TILT_STEPPER_DIR_CCW }
    /\ steps_from_home = IF current_step_dir = TILT_STEPPER_DIR_CW
                         THEN INT32_MAX - MaxLimitDistance
                         ELSE INT32_MIN + MaxLimitDistance
    /\ current_pos_rad = FarPosOfSteps(steps_from_home)
    /\ dir_pin = DirLine(current_step_dir)
    /\ tilt_stepper_motor_send_angle = 0
    /\ tim5_arr = PERIOD_DEFAULT
    /\ home_pin \in { Bit_RESET, Bit_SET }
    /\ exti_pending = FALSE
    /\ step_pin = Bit_RESET
    /\ TMC260_initialized = 1
    /\ init_calls = 1
    /\ status_requests = << >>
    /\ last_event = "reset"
    /\ sweep_dir = NO_SWEEP
    /\ stepper_profile = << 100, 80, 60, 80, 100 >>
    /\ DriverReset

SpecNearLimit == InitNearLimit /\ [][TIM5_IRQHandler_NearLimit]_vars

\* the state-machine tick with its driver calls followed on the bus, the
\* step tick, which may preempt it, and a fault of the link
NextWaits ==
    \/ TickCallEntry
    \/ ChipSelect
    \/ SPI_I2S_SendData
    \/ SPI1_Exchange
    \/ SPI_I2S_ReceiveData
    \/ ChipDeselect
    \/ TickCallReturn
    \/ TickNoCall
    \/ TIM5_IRQHandler
    \/ SPI1_Stall

\* the two phases whose tick makes a driver call, at their first tick
InitWaits ==
    /\ InitAnyPhase
    /\ ts_state \in { TILT_STEPPER_INITIALIZE, TILT_STEPPER_TEST_DELAY }
    /\ steps_from_home = 0
    /\ current_step_dir = TILT_STEPPER_DIR_STOPPED
    /\ last_dir = 0
    /\ home_pin = Bit_SET
    /\ stepper_profile = << 100, 80, 60, 80, 100 >>

\* the processor goes on with the code of the handler it is in, and SPI1,
\* unless it has stopped, finishes the byte it was given
FairWaits ==
    /\ WF_vars(ChipSelect)
    /\ WF_vars(SPI_I2S_SendData)
    /\ WF_vars(SPI_I2S_ReceiveData)
    /\ WF_vars(ChipDeselect)
    /\ WF_vars(TickCallReturn)
    /\ WF_vars(SPI1_Exchange)

SpecWaits == InitWaits /\ [][NextWaits]_vars /\ FairWaits

\* the sensor handler from any phase, alone and with each handler that
\* can preempt it nested in it, and the step tick
NextSensor ==
    \/ SensorEdge
    \/ EXTI1_IRQHandler
    \/ TIM5_IRQHandler
    \/ EXTI1_PreemptedInStateChange
    \/ EXTI1_PreemptedAfterPosition
    \/ EXTI1_PreemptedBeforeTest

SpecSensor == InitAnyPhase /\ [][NextSensor]_vars

\* the two timer handlers from any phase, alone and with the step tick
\* nested in a direction change of the state-machine tick
NextTimers ==
    \/ TIM5_IRQHandler
    \/ TIM1_TRG_COM_TIM11_IRQHandler
    \/ TIM11_PreemptedInSetDirection

SpecTimers == InitAnyPhase /\ [][NextTimers]_vars

\* The oscillation by itself: the sweep set-up has just run at the home
\* position and commanded CW; the home flag does not move.
InitSweep ==
    /\ ts_state = TILT_STEPPER_TILT_TABLE
    /\ ts_state_timer = 1
    /\ last_dir = 0
    /\ tilt_index = 0
    /\ steps_from_home = 0
    /\ current_pos_rad = PosOfSteps(steps_from_home)
    /\ current_step_dir = TILT_STEPPER_DIR_CW
    /\ dir_pin = DirLine(current_step_dir)
    /\ sweep_dir = current_step_dir
    /\ tilt_stepper_motor_send_angle \in { 0, 1 }
    /\ stepper_profile \in Profiles
    /\ tim5_arr = ProfileAt(0)
    /\ home_pin \in { Bit_RESET, Bit_SET }
    /\ exti_pending = FALSE
    /\ step_pin \in { Bit_RESET, Bit_SET }
    /\ TMC260_initialized = 1
    /\ init_calls = 1
    /\ status_requests = << >>
    /\ last_event = "reset"
    /\ DriverReset

NextSweep ==
    \/ TIM5_IRQHandler
    \/ TIM1_TRG_COM_TIM11_IRQHandler

SpecSweep == InitSweep /\ [][NextSweep]_vars

\* the oscillation with the five-entry table, the step tick that ends a
\* sweep also arriving inside the state-machine tick
NextOscillation ==
    \/ TIM5_IRQHandler
    \/ TIM1_TRG_COM_TIM11_IRQHandler
    \/ TIM11_PreemptedBySweepEnd

\* both timers keep running: an update interrupt that stays pending is
\* served
FairTimers ==
    /\ WF_vars(TIM5_IRQHandler)
    /\ WF_vars(TIM1_TRG_COM_TIM11_IRQHandler)

\* the build whose sweep ends at the profile length
InitOscillation == InitSweep /\ stepper_profile = << 100, 80, 60, 80, 100 >>

SpecOscillation == InitOscillation /\ [][NextOscillation]_vars /\ FairTimers

-----------------------------------------------------------------------------
(* Properties.                                                             *)

\* the over-rotation bounds, as the claims state them
BeyondBounds == current_pos_rad > POS_RAD_UPPER \/ current_pos_rad < POS_RAD_LOWER

(* C1: a state-machine tick that begins in a phase other than HOME or      *)
(* INITIALIZE with current_pos_rad > 3.5 or < -0.5 ends in HOME with the   *)
(* tick counter at 0; with the position inside [-0.5, 3.5] the tick does   *)
(* not move the phase to HOME; a tick that begins in HOME does not         *)
(* evaluate the guard: it stays in HOME and only counts the tick.          *)
C1_OverRotationGuard ==
    [][ TIM1_TRG_COM_TIM11_IRQHandler =>
          /\ ( /\ ts_state \notin { TILT_STEPPER_HOME, TILT_STEPPER_INITIALIZE }
               /\ BeyondBounds )
             => ( ts_state' = TILT_STEPPER_HOME /\ ts_state_timer' = 0 )
          /\ ( /\ ts_state \notin { TILT_STEPPER_HOME, TILT_STEPPER_INITIALIZE }
               /\ ~BeyondBounds )
             => ts_state' # TILT_STEPPER_HOME
          /\ ts_state = TILT_STEPPER_HOME
             => ( ts_state' = TILT_STEPPER_HOME
                  /\ ts_state_timer' = ts_state_timer + 1 )
      ]_vars

\* a tick has just forced HOME from beyond the upper bound
C1_Witness ==
    /\ last_event = "TIM11"
    /\ ts_state = TILT_STEPPER_HOME
    /\ ts_state_timer = 0
    /\ current_pos_rad > POS_RAD_UPPER

(* C2 (as claimed): in every reachable state current_pos_rad is the        *)
(* closed-form function of steps_from_home.                                *)
C2_PositionIsFunctionOfSteps ==
    current_pos_rad = PosOfSteps(steps_from_home)

(* C3 (as claimed): the home sensor handler zeroes the position exactly    *)
(* when (direction CW and flag covered) or (direction CCW and flag         *)
(* uncovered); for every other pair, STOPPED included, it writes the       *)
(* provisional position and a nonzero step count.                          *)
C3_ClaimedCrossing(level, dir) ==
    \/ dir = TILT_STEPPER_DIR_CW  /\ level = FLAG_COVERED
    \/ dir = TILT_STEPPER_DIR_CCW /\ level = FLAG_UNCOVERED

C3_HomeCrossingTruthTable ==
    [][ EXTI1_IRQHandler =>
          IF C3_ClaimedCrossing(home_pin, current_step_dir)
          THEN steps_from_home' = 0 /\ current_pos_rad' = 0
          ELSE steps_from_home' # 0 /\ current_pos_rad' = PROVISIONAL_POS_RAD
      ]_vars

(* C4: when the home sensor handler has written the position and finds   *)
(* steps_from_home == 0 while the phase is HOME, it moves the phase to     *)
(* TEST_DELAY, resets the tick counter and records last_dir = 1; in every  *)
(* other case it leaves phase, tick counter and last_dir as they were.     *)
C4_HomingCompletion ==
    [][ EXTI1_IRQHandler =>
          IF steps_from_home' = 0 /\ ts_state = TILT_STEPPER_HOME
          THEN /\ ts_state' = TILT_STEPPER_TEST_DELAY
               /\ ts_state_timer' = 0
               /\ last_dir' = 1
          ELSE UNCHANGED << ts_state, ts_state_timer, last_dir >>
      ]_vars

\* the handler has just completed a homing that had counted ticks
C4_Witness ==
    /\ last_event = "EXTI1"
    /\ ts_state = TILT_STEPPER_TEST_DELAY
    /\ ts_state_timer = 0
    /\ last_dir = 1
    /\ steps_from_home = 0
    /\ current_step_dir # TILT_STEPPER_DIR_STOPPED

(* C5: the phase leaves HOME only through the home sensor handler and only *)
(* to TEST_DELAY; no state-machine tick and no step tick moves it.         *)
C5_HomeLeftOnlyBySensor ==
    [][ ( ts_state = TILT_STEPPER_HOME /\ ts_state' # TILT_STEPPER_HOME )
          => ( EXTI1_IRQHandler /\ ts_state' = TILT_STEPPER_TEST_DELAY )
      ]_vars

\* a tick has run in HOME, past the setup tick, with the position beyond
\* the guard's bounds, and the phase still is HOME
C5_Witness ==
    /\ last_event = "TIM11"
    /\ ts_state = TILT_STEPPER_HOME
    /\ ts_state_timer > 1
    /\ BeyondBounds

(* C6: the state-machine tick that finds INITIALIZE brings the driver up   *)
(* and leaves HOME with the tick counter at 0; INITIALIZE is never         *)
(* entered again, and the driver is brought up exactly once.               *)
C6_InitializeOnce ==
    /\ []( init_calls = IF ts_state = TILT_STEPPER_INITIALIZE THEN 0 ELSE 1 )
    /\ [][ ( TIM1_TRG_COM_TIM11_IRQHandler /\ ts_state = TILT_STEPPER_INITIALIZE )
             => ( /\ ts_state' = TILT_STEPPER_HOME
                  /\ ts_state_timer' = 0
                  /\ TMC260_initialized' = 1
                  /\ init_calls' = init_calls + 1 )
         ]_vars
    /\ [][ ts_state # TILT_STEPPER_INITIALIZE
             => ts_state' # TILT_STEPPER_INITIALIZE ]_vars

\* the first tick has just run
C6_Witness ==
    /\ last_event = "TIM11"
    /\ ts_state = TILT_STEPPER_HOME
    /\ ts_state_timer = 0
    /\ TMC260_initialized = 1
    /\ init_calls = 1

(* C7: the tick in HOME with the tick counter reaching 1 commands the      *)
(* direction: at steps_from_home == 0 from the flag (uncovered -> CCW,     *)
(* covered -> CW), otherwise from the sign of current_pos_rad (> 0 -> CCW, *)
(* else CW); a tick in HOME with any other count leaves the direction.     *)
C7_HomeDirection ==
    [][ ( TIM1_TRG_COM_TIM11_IRQHandler /\ ts_state = TILT_STEPPER_HOME ) =>
          IF ts_state_timer + 1 = 1
          THEN current_step_dir' =
                 IF steps_from_home = 0
                 THEN IF home_pin = FLAG_UNCOVERED
                      THEN TILT_STEPPER_DIR_CCW
                      ELSE TILT_STEPPER_DIR_CW
                 ELSE IF current_pos_rad > 0
                      THEN TILT_STEPPER_DIR_CCW
                      ELSE TILT_STEPPER_DIR_CW
          ELSE current_step_dir' = current_step_dir
      ]_vars

\* the scenario: after INITIALIZE, flag uncovered, at zero: CCW
C7_Witness ==
    /\ last_event = "TIM11"
    /\ ts_state = TILT_STEPPER_HOME
    /\ ts_state_timer = 1
    /\ steps_from_home = 0
    /\ home_pin = FLAG_UNCOVERED
    /\ current_step_dir = TILT_STEPPER_DIR_CCW

(* C8: a tick in TEST_DELAY on which the guard does not fire requests the  *)
(* Position status when the tick counter reaches 1 and on no other count,  *)
(* and moves the phase to TILT_TABLE (tick counter 0) exactly when the     *)
(* count exceeds 200, which is the 201st tick after entry.                 *)
C8_TestDelay ==
    /\ []( ts_state = TILT_STEPPER_TEST_DELAY => ts_state_timer <= 200 )
    /\ [][ ( /\ TIM1_TRG_COM_TIM11_IRQHandler
             /\ ts_state = TILT_STEPPER_TEST_DELAY
             /\ ~BeyondBounds ) =>
             /\ status_requests' = IF ts_state_timer + 1 = 1
                                   THEN << TMC260_STATUS_POSITION >>
                                   ELSE << >>
             /\ IF ts_state_timer + 1 > 200
                THEN ts_state' = TILT_STEPPER_TILT_TABLE /\ ts_state_timer' = 0
                ELSE /\ ts_state' = TILT_STEPPER_TEST_DELAY
                     /\ ts_state_timer' = ts_state_timer + 1
         ]_vars

\* the 201st tick has just ended the delay
C8_Witness ==
    /\ last_event = "TIM11"
    /\ ts_state = TILT_STEPPER_TILT_TABLE
    /\ ts_state_timer = 0
    /\ status_requests = << >>

C10_SweepStep ==
    [][ ( TIM5_IRQHandler /\ ts_state = TILT_STEPPER_TILT_TABLE ) =>
          /\ tilt_index' = tilt_index + 1
          /\ ts_state' = TILT_STEPPER_TILT_TABLE
          /\ IF tilt_index + 1 < Len(stepper_profile)
                /\ stepper_profile[(tilt_index + 1) + 1] > 0
             THEN /\ step_pin' # step_pin
                  /\ tim5_arr' = stepper_profile[(tilt_index + 1) + 1]
                  /\ ts_state_timer' = ts_state_timer
             ELSE /\ step_pin' = step_pin
                  /\ steps_from_home' = steps_from_home
                  /\ tim5_arr' = tim5_arr
                  /\ ts_state_timer' = 0
      ]_vars

\* the scenario: the cursor was at the last of five non-zero entries and
\* the step tick has ended the sweep, after some state-machine ticks
C10_Witness ==
    /\ last_event = "TIM5"
    /\ ts_state = TILT_STEPPER_TILT_TABLE
    /\ stepper_profile = << 100, 80, 60, 80, 100 >>
    /\ tilt_index = 5
    /\ tim5_arr = 100
    /\ ts_state_timer = 0
    /\ sweep_dir # NO_SWEEP

(* C11 (as claimed): in every reachable state the motion profile cursor is *)
(* at most the profile length: once the sweep has ended the cursor stops   *)
(* advancing until the next sweep setup resets it to 0.                    *)
C11_CursorBounded == tilt_index <= Len(stepper_profile)

(* C12: a step tick in TEST_CW, TEST_CCW or HOME issues exactly one step   *)
(* pulse (one toggle of the step line), changes steps_from_home by exactly *)
(* +1 when the direction is CW and by exactly -1 when it is CCW, and       *)
(* recomputes current_pos_rad from the new count; the phase, the tick      *)
(* counter and the cursor are left alone.                                  *)
C12_StepTick ==
    [][ ( /\ TIM5_IRQHandler
          /\ ts_state \in { TILT_STEPPER_TEST_CW, TILT_STEPPER_TEST_CCW,
                            TILT_STEPPER_HOME } ) =>
          /\ step_pin' # step_pin
          /\ current_step_dir = TILT_STEPPER_DIR_CW
               => steps_from_home' = steps_from_home + 1
          /\ current_step_dir = TILT_STEPPER_DIR_CCW
               => steps_from_home' = steps_from_home - 1
          /\ current_pos_rad' = PosOfSteps(steps_from_home')
          /\ UNCHANGED << ts_state, ts_state_timer >>
      ]_vars

\* a CCW step tick of the TEST_CCW phase has moved the count below the
\* counts the phase can start from
C12_Witness ==
    /\ last_event = "TIM5"
    /\ ts_state = TILT_STEPPER_TEST_CCW
    /\ current_step_dir = TILT_STEPPER_DIR_CCW
    /\ steps_from_home = -2
    /\ current_pos_rad = PosOfSteps(-2)
    /\ step_pin = Bit_SET

(* C13: a step tick in INITIALIZE, TEST_DELAY or ERROR issues no step      *)
(* pulse and leaves steps_from_home, current_pos_rad, the cursor, the      *)
(* phase, the tick counter and the step period unchanged.                  *)
C13_StepTickIdle ==
    [][ ( /\ TIM5_IRQHandler
          /\ ts_state \in { TILT_STEPPER_INITIALIZE, TILT_STEPPER_TEST_DELAY,
                            TILT_STEPPER_ERROR } ) =>
          UNCHANGED << step_pin, steps_from_home, current_pos_rad, tilt_index,
                       ts_state, ts_state_timer, tim5_arr >>
      ]_vars

\* a step tick has just run in the delay phase, with a direction commanded
\* and some state-machine ticks counted
C13_Witness ==
    /\ last_event = "TIM5"
    /\ ts_state = TILT_STEPPER_TEST_DELAY
    /\ ts_state_timer > 1
    /\ current_step_dir # TILT_STEPPER_DIR_STOPPED

(* C14: starting from INITIALIZE, under every interleaving of              *)
(* state-machine ticks, step ticks and sensor edges, the phase is always   *)
(* one of INITIALIZE, HOME, TEST_DELAY, TILT_TABLE: TEST_CW, TEST_CCW and  *)
(* ERROR are never reached.                                                *)
C14_NormalFlowPhases ==
    ts_state \in { TILT_STEPPER_INITIALIZE, TILT_STEPPER_HOME,
                   TILT_STEPPER_TEST_DELAY, TILT_STEPPER_TILT_TABLE }

\* the guard has just sent a sweep that ran beyond the bounds back to HOME
C14_Witness ==
    /\ last_event = "TIM11"
    /\ ts_state = TILT_STEPPER_HOME
    /\ ts_state_timer = 0
    /\ sweep_dir # NO_SWEEP
    /\ BeyondBounds

(* C15 (as claimed): ERROR is terminal: from ERROR no state-machine tick,  *)
(* step tick or sensor edge leads to another phase, whatever the value of  *)
(* current_pos_rad.                                                        *)
C15_ErrorTerminal ==
    [][ ts_state = TILT_STEPPER_ERROR => ts_state' = TILT_STEPPER_ERROR ]_vars

(* C16: a state-machine tick on which the incremented tick counter is a    *)
(* multiple of 25 leaves the telemetry request flag raised (it sets it to  *)
(* 1 if it was 0); such a tick writes neither the direction nor the        *)
(* position state and, unless the over-rotation guard fires, keeps the     *)
(* phase; on any other count the tick leaves the flag as it was, and no    *)
(* handler of the state machine ever clears the flag.                      *)
C16_SendAngleFlag ==
    /\ [][ TIM1_TRG_COM_TIM11_IRQHandler =>
             IF (ts_state_timer + 1) % 25 = 0
             THEN /\ tilt_stepper_motor_send_angle' = 1
                  /\ UNCHANGED << current_step_dir, current_pos_rad,
                                  steps_from_home >>
                  /\ ~BeyondBounds => ts_state' = ts_state
             ELSE tilt_stepper_motor_send_angle' = tilt_stepper_motor_send_angle
         ]_vars
    /\ [][ ( TIM1_TRG_COM_TIM11_IRQHandler \/ TIM5_IRQHandler
             \/ EXTI1_IRQHandler )
             => tilt_stepper_motor_send_angle' >= tilt_stepper_motor_send_angle
         ]_vars

\* the 50th tick of a delay phase has just raised the flag
C16_Witness ==
    /\ last_event = "TIM11"
    /\ ts_state = TILT_STEPPER_TEST_DELAY
    /\ ts_state_timer = 50
    /\ tilt_stepper_motor_send_angle = 1

(* C17 (as claimed): every phase transition leaves the tick counter at 0,  *)
(* so that the first state-machine tick that starts in the new phase       *)
(* counts 1 and runs the phase's on-entry action; this holds for the       *)
(* transitions made by the state-machine tick, by the step tick and by the *)
(* sensor handler, under every preemption the priorities allow.            *)
C17_TransitionResetsTimer ==
    [][ ts_state' # ts_state => ts_state_timer' = 0 ]_vars

(* C18: a register write is one transaction: every byte goes out while the *)
(* chip select is low; the chip select is released only when exactly three *)
(* bytes have gone out, which are bits 23..16, 15..8 and 7..0 of the       *)
(* register value in this order, and the bus is no longer busy; the chip   *)
(* select is high when the call has returned.                              *)
C18_WriteFraming ==
    /\ []( /\ Len(spi_tx) <= 3
           /\ \A i \in 1..Len(spi_tx) : spi_tx[i].cs = Bit_RESET
           /\ drv_retval = TMC260_SUCCESS => cs_pin = Bit_SET )
    /\ [][ ( cs_pin = Bit_RESET /\ cs_pin' = Bit_SET ) =>
             /\ ~spi_bsy
             /\ Len(spi_tx) = 3
             /\ spi_tx[1].byte = (drv_call.regval \div 65536) % 256
             /\ spi_tx[2].byte = (drv_call.regval \div 256) % 256
             /\ spi_tx[3].byte = drv_call.regval % 256
             /\ drv_retval' = TMC260_SUCCESS
         ]_vars

\* TMC260_send_chopconf(0, 1, 0, 0, 0, 4, 4) has returned: 0x84044 went out
\* as 0x08, 0x40, 0x44
C18_Witness ==
    /\ drv_pc = "idle"
    /\ drv_retval = TMC260_SUCCESS
    /\ drv_call.op = "chopconf"
    /\ cs_pin = Bit_SET
    /\ ~spi_bsy
    /\ spi_tx = << [ byte |-> 8,  cs |-> Bit_RESET ],
                   [ byte |-> 64, cs |-> Bit_RESET ],
                   [ byte |-> 68, cs |-> Bit_RESET ] >>

\* a field value of the call does not fit the width of its field
C19_OverWidth(op, args) ==
    \E i \in 1..Len(args) : args[i] >= 2 ^ TMC260_send_ops[op].fields[i][2]

(* C19 (as claimed): a call of a register-writing function with a field    *)
(* value that exceeds the declared width of its field returns the invalid  *)
(* input error, for each of the six functions.                             *)
C19_OverWidthRejected ==
    ( /\ drv_pc = "idle"
      /\ drv_call.op # "none"
      /\ C19_OverWidth(drv_call.op, drv_call.args) )
    => drv_retval = TMC260_ERROR_INVALID_INPUT

(* C20: a register-writing call that returns the invalid input error has   *)
(* sent no byte, has not moved the chip select, and has left the five      *)
(* shadow registers as they were.                                          *)
C20_RejectedBeforeTransaction ==
    [][ ( TMC260_send /\ drv_retval' = TMC260_ERROR_INVALID_INPUT ) =>
          UNCHANGED << cs_pin, spi_tx, spi_bsy, TMC260_regval >>
      ]_vars

\* TMC260_send_drvctrl_sdon has rejected intpol = 2 after an accepted write
\* of DRVCTRL, whose transaction still stands on the bus log
C20_Witness ==
    /\ drv_pc = "idle"
    /\ drv_retval = TMC260_ERROR_INVALID_INPUT
    /\ drv_call.op = "drvctrl_sdon"
    /\ TMC260_regval["DRVCTRL"] # 0
    /\ Len(spi_tx) = 3
    /\ cs_pin = Bit_SET

\* the bits of a register value under the field's mask, shifted down
C21_Extract(regval, field) == BitAnd(regval, FieldMask(field)) \div 2 ^ field[1]

\* the union of the masks of the fields from the i-th on
RECURSIVE C21_MasksFrom(_, _)
C21_MasksFrom(fields, i) ==
    IF i > Len(fields)
    THEN 0
    ELSE BitOr(FieldMask(fields[i]), C21_MasksFrom(fields, i + 1))

(* C21: for each register-writing function and arguments that each fit     *)
(* their field, extracting every field from the packed value with the      *)
(* field's mask and shift gives back the argument, and the bits outside    *)
(* all field masks are the register's init pattern.                        *)
C21_PackRoundTrip ==
    drv_call.op # "none" =>
        LET l == TMC260_send_ops[drv_call.op]
        IN  /\ \A i \in 1..Len(l.fields) :
                  C21_Extract(drv_call.regval, l.fields[i]) = drv_call.args[i]
            /\ drv_call.regval
                  - BitAnd(drv_call.regval, C21_MasksFrom(l.fields, 1)) = l.init

\* CHOPCONF packed with every field at its largest value: 0x9FFFF
C21_Witness ==
    /\ drv_call.op = "chopconf"
    /\ drv_call.args = << 3, 1, 1, 3, 15, 7, 15 >>
    /\ drv_call.regval = 655359

\* the status request that is returning, and its status_type
C22_StatusReturns == TMC260_call_return /\ drv_call.op = "status"

(* C22 (as claimed): a status request makes exactly two transactions, both *)
(* carrying the same DRVCONF value whose RDSEL field is the requested      *)
(* kind; the status struct is decoded from the chip's reply to the second  *)
(* transaction alone, and that reply is the status of the requested kind,  *)
(* whatever kind was selected before.                                      *)
C22_TwoPhaseStatus ==
    [][ C22_StatusReturns =>
          LET status_type == drv_call.args[1]
          IN  /\ Len(call_log) = 2
              /\ call_log[1].datagram = drv_call.regval
              /\ call_log[2].datagram = drv_call.regval
              /\ (drv_call.regval \div 16) % 4 = StatusTypeValue(status_type)
              /\ drv_call.regval \div 131072 = 7
              /\ call_log[2].reply =
                    ChipStatus(StatusTypeValue(status_type), chip_meas)
              /\ stat_struct' = StatusStruct(status_type, call_log[2].reply)
      ]_vars

\* bit n of a reply
C23_Bit(rd, n) == (rd \div 2 ^ n) % 2

(* C23: the status struct a request returns is decoded from the 20-bit     *)
(* reply made of the three bytes read, first byte most significant: each   *)
(* of the eight flags is its bit of the reply, the payload of the          *)
(* requested kind is filled in (Position: position; StallGuard:            *)
(* stall_guard; Current: stall_guard and current), every other payload     *)
(* field is 0, and a kind outside the enumeration leaves all three 0.      *)
C23_StatusDecoding ==
    [][ ( TMC260_call_return /\ drv_call.op = "status" ) =>
          LET status_type == drv_call.args[1]
              rd == ( rd_bytes[1] * 65536 + rd_bytes[2] * 256 + rd_bytes[3] )
                       \div 16
              s  == stat_struct'
          IN  /\ Len(rd_bytes) = 3
              /\ s.STST = C23_Bit(rd, 7)
              /\ s.OLB  = C23_Bit(rd, 6)
              /\ s.OLA  = C23_Bit(rd, 5)
              /\ s.S2GB = C23_Bit(rd, 4)
              /\ s.S2GA = C23_Bit(rd, 3)
              /\ s.OTPW = C23_Bit(rd, 2)
              /\ s.OT   = C23_Bit(rd, 1)
              /\ s.SG   = C23_Bit(rd, 0)
              /\ s.position =
                    IF status_type = TMC260_STATUS_POSITION
                    THEN rd \div 1024
                    ELSE 0
              /\ s.stall_guard =
                    CASE status_type = TMC260_STATUS_STALLGUARD -> rd \div 1024
                      [] status_type = TMC260_STATUS_CURRENT    -> rd \div 32768
                      [] OTHER                                  -> 0
              /\ s.current =
                    IF status_type = TMC260_STATUS_CURRENT
                    THEN (rd \div 1024) % 32
                    ELSE 0
      ]_vars

\* a Current request has returned a stall metric, a current scale and flags
C23_Witness ==
    /\ drv_pc = "idle"
    /\ drv_call.op = "status"
    /\ drv_call.args = << TMC260_STATUS_CURRENT >>
    /\ stat_struct.status_type = TMC260_STATUS_CURRENT
    /\ stat_struct.stall_guard = 10
    /\ stat_struct.current = 21
    /\ stat_struct.position = 0
    /\ stat_struct.STST = 1
    /\ stat_struct.OLB = 0
    /\ stat_struct.SG = 1

(* C24 (as claimed): a Position status request that directly follows a     *)
(* Position status request, with no register write and no step between    *)
(* the two, returns the position the first returned and leaves the shadow  *)
(* of DRVCONF at the value it had after the first.                         *)
C24_StatusIdempotent ==
    [][ ( /\ TMC260_call_return
          /\ drv_call.op = "status"
          /\ drv_call.args = << TMC260_STATUS_POSITION >>
          /\ prev_call.op = "status"
          /\ prev_call.args = << TMC260_STATUS_POSITION >> ) =>
          /\ stat_struct'.position = stat_struct.position
          /\ TMC260_regval'["DRVCONF"] = prev_call.regval
      ]_vars

\* the register-writing call that is storing the shadow of register r
C25_ConfigurationOf(r) ==
    /\ ChipDeselect
    /\ drv_call.op \in DOMAIN TMC260_send_ops
    /\ TMC260_send_ops[drv_call.op].reg = r

(* C25 (as claimed): the shadow of a register changes only when the        *)
(* register-writing function of that register executes, and then it holds  *)
(* the value that was transmitted; nothing else, a status request          *)
(* included, changes a shadow.                                             *)
C25_ShadowFrame ==
    [][ \A r \in TMC260_registers :
           TMC260_regval'[r] # TMC260_regval[r] =>
              /\ C25_ConfigurationOf(r)
              /\ Len(call_log') = 1
              /\ TMC260_regval'[r] = call_log'[1].datagram
      ]_vars

\* a driver call has been entered and has not returned
C26_CallRunning == drv_pc # "idle"

\* SPI1 has stopped with a byte in flight: TXE, RXNE and BSY stay as they
\* are
C26_FlagsStuck == spi_stalled /\ spi_bsy

(* C26: the transport waits have no timeout.  Once SPI1 has stopped with a *)
(* byte in flight the driver call of the state-machine tick never returns  *)
(* and the phase never changes again; and if SPI1 never stops, every       *)
(* driver call that was entered returns.                                   *)
C26_WaitsUnbounded ==
    /\ [][ C26_FlagsStuck =>
              /\ C26_FlagsStuck'
              /\ C26_CallRunning'
              /\ ts_state' = ts_state
              /\ ts_state_timer' = ts_state_timer
         ]_vars
    /\ ( [] ~spi_stalled => ( C26_CallRunning ~> ~C26_CallRunning ) )

\* the status request of TEST_DELAY is stuck in the wait for RXNE and BSY
\* of its second transaction, the step tick has run since
C26_Witness ==
    /\ C26_FlagsStuck
    /\ drv_call.op = "status"
    /\ drv_pc = "rx2"
    /\ ts_state = TILT_STEPPER_TEST_DELAY
    /\ last_event = "TIM5"

(* C27 (as claimed): the step counter saturates: a CW step at the maximum  *)
(* of the signed 32-bit range leaves steps_from_home at the maximum, a CCW *)
(* step at the minimum leaves it at the minimum.                           *)
C27_CounterSaturates ==
    [][ TIM5_IRQHandler_NearLimit =>
          /\ ( ( current_step_dir = TILT_STEPPER_DIR_CW
                 /\ steps_from_home = INT32_MAX )
               => steps_from_home' = INT32_MAX )
          /\ ( ( current_step_dir = TILT_STEPPER_DIR_CCW
                 /\ steps_from_home = INT32_MIN )
               => steps_from_home' = INT32_MIN )
      ]_vars

\* the sensor handler, handling a home crossing, preempted after one of its
\* writes by a step tick that steps the motor
C28_SensorPreempted ==
    /\ EXTI1_PreemptedAfterPosition \/ EXTI1_PreemptedBeforeTest
    /\ HomeCrossing(home_pin, current_step_dir)
    /\ ts_state \in SteppingPhases
    /\ current_step_dir # TILT_STEPPER_DIR_STOPPED

(* C28 (as claimed): when a step tick preempts the sensor handler           *)
(* between its write of the position and its write of the step count, or   *)
(* before its test of the step count, the state both handlers leave has    *)
(* the position that belongs to the step count, and is the state that one  *)
(* of the two orders of running the handlers one after the other leaves.   *)
C28_PreemptionSerializable ==
    [][ C28_SensorPreempted =>
          /\ current_pos_rad' = PosOfSteps(steps_from_home')
          /\ \/ StepGlobals' = [ StepTick(SensorHandler(StepGlobals))
                                   EXCEPT !.status_requests = << >> ]
             \/ StepGlobals' = [ SensorHandler(StepTick(StepGlobals))
                                   EXCEPT !.status_requests = << >> ]
      ]_vars


\* one activation of the sensor handler, alone or with a preempting handler
\* nested in it
C29_SensorActivation ==
    \/ EXTI1_IRQHandler
    \/ EXTI1_PreemptedInStateChange
    \/ EXTI1_PreemptedAfterPosition
    \/ EXTI1_PreemptedBeforeTest

(* C29 (as claimed): an activation of the sensor handler that begins in    *)
(* HOME and reads the home input and the direction in a crossing           *)
(* combination ends in TEST_DELAY, also when the step tick or the          *)
(* state-machine tick preempts it.                                         *)
C29_CrossingCompletesHoming ==
    [][ /\ C29_SensorActivation
        /\ ts_state = TILT_STEPPER_HOME
        /\ HomeCrossing(home_pin, current_step_dir)
        => ts_state' = TILT_STEPPER_TEST_DELAY ]_vars


\* EXTI1_IRQHandler has just handled a wrong-side edge in HOME: the
\* provisional position and its step count stand, no step taken since
C30_ProvisionalSet ==
    /\ last_event = "EXTI1"
    /\ ts_state = TILT_STEPPER_HOME
    /\ current_pos_rad = PROVISIONAL_POS_RAD
    /\ steps_from_home = StepsOfPos(PROVISIONAL_POS_RAD)

(* C30 (as claimed, for the first step): the step tick that follows a      *)
(* wrong-side edge handled in HOME, before any other sensor edge, moves    *)
(* steps_from_home from the provisional count toward 0.                    *)
C30_StepWalksOffsetDown ==
    [][ TIM5_IRQHandler /\ C30_ProvisionalSet =>
          /\ steps_from_home' >= 0
          /\ steps_from_home' < steps_from_home ]_vars


\* the over-rotation guard has forced HOME and the HOME tick that commands
\* the direction has not run yet; the position is beyond the upper
\* (respectively lower) bound
C31_ForcedHomeAbove ==
    /\ ts_state = TILT_STEPPER_HOME
    /\ ts_state_timer = 0
    /\ current_pos_rad > POS_RAD_UPPER

C31_ForcedHomeBelow ==
    /\ ts_state = TILT_STEPPER_HOME
    /\ ts_state_timer = 0
    /\ current_pos_rad < POS_RAD_LOWER

(* C31 (as claimed): after the over-rotation guard has forced HOME with    *)
(* the position above the upper bound (below the lower bound), no step     *)
(* tick increases (decreases) steps_from_home before the HOME tick with    *)
(* ts_state_timer == 1 has commanded the direction.                        *)
C31_GuardStopsOutwardMotion ==
    [][ TIM5_IRQHandler =>
          /\ C31_ForcedHomeAbove => steps_from_home' <= steps_from_home
          /\ C31_ForcedHomeBelow => steps_from_home' >= steps_from_home ]_vars


\* TILT_TABLE has been entered from TEST_DELAY and its set-up tick has not
\* run: no sweep has been set up since the homing
C32_SweepNotSetUp ==
    /\ ts_state = TILT_STEPPER_TILT_TABLE
    /\ ts_state_timer = 0
    /\ sweep_dir = NO_SWEEP

(* C32 (as claimed): a step tick between the transition from TEST_DELAY    *)
(* into TILT_TABLE and the state-machine tick that sets the sweep up       *)
(* issues no step pulse and leaves steps_from_home and current_pos_rad     *)
(* alone, whatever the cursor holds.                                       *)
C32_NoStepBeforeSetup ==
    [][ TIM5_IRQHandler /\ C32_SweepNotSetUp =>
          UNCHANGED << step_pin, steps_from_home, current_pos_rad >> ]_vars


(* C33 (as claimed): a step tick that issues a pulse (toggles the step     *)
(* line) finds the direction CW or CCW and changes steps_from_home by      *)
(* exactly one: no pulse is sent while the direction is STOPPED.           *)
C33_NoPulseWhileStopped ==
    [][ TIM5_IRQHandler /\ step_pin' # step_pin =>
          /\ current_step_dir \in { TILT_STEPPER_DIR_CW, TILT_STEPPER_DIR_CCW }
          /\ \/ steps_from_home' = steps_from_home + 1
             \/ steps_from_home' = steps_from_home - 1 ]_vars


\* a step tick, alone or nested in a direction change of the state-machine
\* tick, that issues a pulse
C34_PulseIssued ==
    /\ TIM5_IRQHandler \/ TIM11_PreemptedInSetDirection
    /\ step_pin' # step_pin

(* C34 (as claimed): when a pulse is issued, the direction line at that    *)
(* moment agrees with the direction the step is counted by: a step counted *)
(* up (CW) goes out with the line low, a step counted down (CCW) with the  *)
(* line high, also when the step tick preempts the state-machine tick      *)
(* between its write of current_step_dir and its write of the line.        *)
C34_DirLineAgrees ==
    [][ C34_PulseIssued =>
          /\ steps_from_home' = steps_from_home + 1 => dir_pin = TMC260_dir_CW
          /\ steps_from_home' = steps_from_home - 1 => dir_pin = TMC260_dir_CCW
      ]_vars


\* the state-machine tick runs the sweep set-up
C35_SetupTick ==
    /\ TIM1_TRG_COM_TIM11_IRQHandler
    /\ ts_state = TILT_STEPPER_TILT_TABLE
    /\ ts_state' = TILT_STEPPER_TILT_TABLE
    /\ ts_state_timer' = 1

(* C35: an activation of the sensor handler that completes a homing (HOME  *)
(* to TEST_DELAY) leaves last_dir = 1, whatever direction the homing used  *)
(* and whatever sweep was in force; last_dir is still 1 in TILT_TABLE      *)
(* while no sweep has been set up since; and the first sweep set-up after  *)
(* the homing clears last_dir and commands CW, on the line too.            *)
C35_FirstSweepClockwise ==
    /\ [][ EXTI1_IRQHandler /\ ts_state = TILT_STEPPER_HOME
             /\ ts_state' = TILT_STEPPER_TEST_DELAY =>
             last_dir' = 1 /\ sweep_dir' = NO_SWEEP ]_vars
    /\ [] ( ts_state \in { TILT_STEPPER_TEST_DELAY, TILT_STEPPER_TILT_TABLE }
              /\ sweep_dir = NO_SWEEP => last_dir = 1 )
    /\ [][ C35_SetupTick /\ sweep_dir = NO_SWEEP =>
             /\ last_dir' = 0
             /\ current_step_dir' = TILT_STEPPER_DIR_CW
             /\ dir_pin' = TMC260_dir_CW
             /\ sweep_dir' = TILT_STEPPER_DIR_CW ]_vars

\* a sweep set-up has just commanded CW at the home position, the home
\* input low
C35_Witness ==
    /\ last_event = "TIM11"
    /\ ts_state = TILT_STEPPER_TILT_TABLE
    /\ ts_state_timer = 1
    /\ sweep_dir = TILT_STEPPER_DIR_CW
    /\ current_step_dir = TILT_STEPPER_DIR_CW
    /\ dir_pin = TMC260_dir_CW
    /\ last_dir = 0
    /\ tilt_index = 0
    /\ steps_from_home = 0
    /\ home_pin = Bit_RESET


\* the cursor position that ends a sweep: the first one that is the profile
\* length or holds a zero entry
C36_SweepEnd ==
    CHOOSE k \in 1..tilt_elements :
       /\ k = tilt_elements \/ ProfileAt(k) = 0
       /\ \A j \in 1..(k - 1) : ProfileAt(j) # 0

\* a sweep set-up has just run
C36_SweepSetUp ==
    /\ last_event = "TIM11"
    /\ ts_state = TILT_STEPPER_TILT_TABLE
    /\ ts_state_timer = 1
    /\ tilt_index = 0

(* C36 (as claimed): with no sensor edge and no guard trip, every complete *)
(* sweep issues the steps of cursor positions 1..k-1, k the position that  *)
(* ends the sweep: starting with a CW sweep from steps_from_home = 0,      *)
(* every set-up of a CCW sweep finds steps_from_home = k-1 and every       *)
(* set-up of a CW sweep finds it back at 0.                                *)
C36_SweepsSymmetric ==
    C36_SweepSetUp =>
       steps_from_home = IF current_step_dir = TILT_STEPPER_DIR_CW
                         THEN 0
                         ELSE C36_SweepEnd - 1


\* a sweep in direction dir has just been set up
C37_SweepStarts(dir) ==
    /\ last_event = "TIM11"
    /\ ts_state = TILT_STEPPER_TILT_TABLE
    /\ tilt_index = 0
    /\ current_step_dir = dir
    /\ dir_pin = DirLine(dir)

(* C37: in TILT_TABLE, with both timers ticking, no sensor edge and the   *)
(* position inside the guard bounds, sweeps in the two directions are set  *)
(* up again and again, also when the step tick that ends a sweep arrives   *)
(* inside the state-machine tick.                                          *)
C37_OscillationLive ==
    [] ~BeyondBounds =>
       /\ []<> C37_SweepStarts(TILT_STEPPER_DIR_CW)
       /\ []<> C37_SweepStarts(TILT_STEPPER_DIR_CCW)

\* the increment of the state-machine tick has overwritten the reset of
\* the step tick that ended the sweep: the cursor is at the end and the
\* tick counter is past the set-up value
C37_Witness ==
    /\ last_event = "TIM11"
    /\ ts_state = TILT_STEPPER_TILT_TABLE
    /\ tilt_index = tilt_elements
    /\ ts_state_timer = 2


(* C38 (as claimed, in its consequence for an unbounded run): while the    *)
(* state-machine tick keeps ticking, the telemetry request flag is raised  *)
(* or found raised again and again, also in the continuous oscillation in  *)
(* which every sweep lasts fewer than 25 state-machine ticks.              *)
C38_TelemetryKeepsComing ==
    [] ( ts_state = TILT_STEPPER_TILT_TABLE ) =>
       []<> ( tilt_stepper_motor_send_angle = 1 )

=============================================================================
